---- MODULE Spec2Model ----
(***************************************************************************)
(* The document text extraction service of med-ai:                         *)
(* ai_service/app/services/ocr.py, class OCRService.                       *)
(*                                                                         *)
(* One call of extract_text is a sequential run of steps.  Every call of   *)
(* a collaborator (PDF parser, DOCX parser, vision API, image decoder,     *)
(* preprocessing, Tesseract) is one step whose response is an input.       *)
(* Text is a sequence of one-character strings, so that strip(), lower(),  *)
(* endswith(), len() and join() are computed and not assumed.              *)
(***************************************************************************)
EXTENDS Integers, Sequences, FiniteSets, TLC

\* ------------------------------------------------------------------ bounds

\* Pages of a modelled PDF document.
MaxPages == 2

\* Paragraphs of a modelled DOCX document.
MaxParas == 3

\* How many switches between two concurrent calls are counted.
MaxSwitches == 3

\* ------------------------------------------------------------- python text

SP == " "

NL == "\n"

TAB == "\t"

\* The characters str.strip() removes (the ones the model's texts can hold).
Whitespace == {SP, NL, TAB}

\* n copies of character c.
Rep(c, n) == [i \in 1..n |-> c]

RECURSIVE LStrip(_)
LStrip(s) ==
    IF s = <<>> THEN <<>>
    ELSE IF Head(s) \in Whitespace THEN LStrip(Tail(s)) ELSE s

RECURSIVE RStrip(_)
RStrip(s) ==
    IF s = <<>> THEN <<>>
    ELSE IF s[Len(s)] \in Whitespace THEN RStrip(SubSeq(s, 1, Len(s) - 1)) ELSE s

\* str.strip()
Strip(s) == RStrip(LStrip(s))

UpperLetters ==
    <<"A", "B", "C", "D", "E", "F", "G", "H", "I", "J", "K", "L", "M",
      "N", "O", "P", "Q", "R", "S", "T", "U", "V", "W", "X", "Y", "Z">>

LowerLetters ==
    <<"a", "b", "c", "d", "e", "f", "g", "h", "i", "j", "k", "l", "m",
      "n", "o", "p", "q", "r", "s", "t", "u", "v", "w", "x", "y", "z">>

LowerChar(c) ==
    IF \E i \in 1..26 : UpperLetters[i] = c
    THEN LowerLetters[CHOOSE i \in 1..26 : UpperLetters[i] = c]
    ELSE c

\* str.lower()
Lower(s) == [i \in 1..Len(s) |-> LowerChar(s[i])]

\* str.endswith(suffix)
EndsWith(s, suffix) ==
    /\ Len(suffix) <= Len(s)
    /\ SubSeq(s, Len(s) - Len(suffix) + 1, Len(s)) = suffix

\* sep.join(parts)
RECURSIVE Join(_, _)
Join(parts, sep) ==
    IF parts = <<>> THEN <<>>
    ELSE IF Len(parts) = 1 THEN parts[1]
    ELSE parts[1] \o sep \o Join(Tail(parts), sep)

\* Python's None where a text may stand: a value that is no text (every
\* element of a text is one character).
None == <<"None">>

\* Python truthiness of an Optional[str]: None and "" are falsy.

Truthy(t) == t # None /\ t # <<>>

\* ------------------------------------------------------------ the suffixes

DotPdf == <<".", "p", "d", "f">>

DotDocx == <<".", "d", "o", "c", "x">>

DotPng == <<".", "p", "n", "g">>

DotJpg == <<".", "j", "p", "g">>

DotJpeg == <<".", "j", "p", "e", "g">>

\* The message of the ValueError of extract_text, by the words that matter.
UnsupportedMessage ==
    <<"Unsupported file type. Only ", "PDF", "DOCX", "PNG", "JPG", "JPEG", " are allowed.">>

\* ---------------------------------------------------------------- inputs

FileNames ==
    { <<"a">> \o DotPdf,
      <<"A", ".", "P", "D", "F">>,
      <<"n">> \o DotDocx,
      <<"N", ".", "D", "o", "c", "X">>,
      <<"i">> \o DotPng,
      <<"i">> \o DotJpg,
      <<"I", ".", "J", "P", "G">>,
      <<"i">> \o DotJpeg,
      <<"d", ".", "b", "m", "p">>,
      <<"n", ".", "d", "o", "c">>,
      <<"p", "d", "f">>,
      <<"a">> \o DotPdf \o <<".", "t", "x", "t">> }

\* The raw text layer of a PDF page, as page.get_text() gives it.
PageLayers == { <<>>, <<SP, NL>>, <<"p", NL>>, <<SP, "q">> }

\* The raw text of a DOCX paragraph, as paragraph.text gives it.
ParaTexts == { <<>>, <<SP>>, <<SP, "h", SP>>, <<"w">>, <<"h", SP, "w", NL>> }

SeqsUpTo(S, n) == UNION { [1..k -> S] : k \in 0..n }

\* The paragraphs ["  Hello  ", "", "World"].
ExampleParas ==
    << <<SP, SP, "H", "e", "l", "l", "o", SP, SP>>, <<>>, <<"W", "o", "r", "l", "d">> >>

\* What the uploaded bytes are: a PDF with its pages, a DOCX with its
\* paragraphs, a decodable image, or bytes no parser accepts.
PdfBytes(pages) == [kind |-> "pdf", pages |-> pages, paras |-> <<>>]

DocxBytes(paras) == [kind |-> "docx", pages |-> <<>>, paras |-> paras]

ImageBytes == [kind |-> "image", pages |-> <<>>, paras |-> <<>>]

JunkBytes == [kind |-> "junk", pages |-> <<>>, paras |-> <<>>]

FileContents ==
    { PdfBytes(p) : p \in SeqsUpTo(PageLayers, MaxPages) }
      \cup { DocxBytes(p) : p \in SeqsUpTo(ParaTexts, MaxParas) \cup {ExampleParas} }
      \cup { ImageBytes, JunkBytes }

\* ------------------------------------------------ collaborator responses

\* The length a vision result must exceed to be returned at once.
Threshold == 20

\* What chat.completions.create does: it raises, or answers with a message
\* whose content is null, or with a message whose content is text.
VisionTexts ==
    { <<>>,
      <<SP>>,
      <<SP>> \o Rep("a", 5),
      Rep("a", Threshold) \o <<NL>>,
      Rep("a", Threshold + 1) }

VisionResponses ==
    { [kind |-> "raise", text |-> <<>>], [kind |-> "null", text |-> <<>>] }
      \cup { [kind |-> "text", text |-> t] : t \in VisionTexts }

\* What _preprocess_image and _preprocess_for_handwritten do: return or raise.
PreprocessOutcomes == { "ok", "raise" }

\* What pytesseract.image_to_string does: it raises or gives raw text.
OcrTexts == { <<>>, <<NL>>, <<"b", NL>>, <<SP, "c">>, <<"b", "b", NL>> }

StringOutcomes ==
    { [kind |-> "raise", text |-> <<>>] }
      \cup { [kind |-> "text", text |-> t] : t \in OcrTexts }

\* One entry of data['conf'].  Depending on the pytesseract build the entries
\* are integers, or strings for the values that are not plain digits ('-1').
IntConf(v) == [type |-> "int", v |-> v]

StrConf(v) == [type |-> "str", v |-> v]

ConfLists ==
    { <<>>,
      <<StrConf(-1)>>,
      <<IntConf(-1)>>,
      <<IntConf(0)>>,
      <<StrConf(-1), IntConf(60)>>,
      <<IntConf(-1), IntConf(90)>>,
      <<IntConf(80)>> }

\* What pytesseract.image_to_data does: it raises or gives the conf column.
DataOutcomes ==
    { [kind |-> "raise", conf |-> <<>>] }
      \cup { [kind |-> "data", conf |-> c] : c \in ConfLists }

\* --------------------------------------------------------------- the state

VARIABLES
    filename,         \* extract_text's argument
    file_bytes,       \* extract_text's argument
    openai_client,    \* self.openai_client is set (a key was given)
    pc,               \* where the call is
    result,           \* the value returned, None before the return
    error,            \* the exception raised, NoError when none
    calls,            \* how often each handler was invoked
    log,              \* the collaborator calls made, in order, with their page
    page_index,       \* _extract_from_pdf: the loop variable
    extracted_pages,  \* _extract_from_pdf: the list
    page_results,     \* the text each finished page yielded, "" for none
    para_index,       \* _extract_from_docx: the position in document.paragraphs
    paragraphs,       \* _extract_from_docx: the list
    vision_text,      \* _extract_from_image: the local
    results,          \* _extract_from_image: the list
    text1,            \* _extract_from_image: the local, None while unassigned
    text2,            \* _extract_from_image: the local, None while unassigned
    branch,           \* which sweep runs: 1 standard, 2 handwritten, 0 none
    psm_index,        \* _ocr_with_multiple_psm: the position in psm_modes
    best_text,        \* _ocr_with_multiple_psm: the local
    max_confidence,   \* _ocr_with_multiple_psm: the local, a fraction
    phase,            \* 0: a single call; 1, 2: the first and second of two calls
    first,            \* what the first of two calls was and did
    env,              \* the responses two calls share, NoEnv when they share none
    vision_response,  \* what the vision API answered for the image or page in work
    last_resort,      \* what image_to_string answered for the original image
    result_confidences, \* the max_confidence behind each entry of results
    mode_log,         \* the answers each turn of a traced sweep got, in order
    profile_inputs,   \* _extract_from_image: what each preprocessing was handed
    profile,          \* a preprocessing on its own: which one runs, "none" for none
    image_size,       \* a preprocessing on its own: width and height of its argument
    array_size,       \* a preprocessing on its own: the shape of img_array
    binary,           \* _preprocess_for_handwritten: the pixels of binary, counted
    thresholded,      \* _preprocess_for_handwritten: binary as cv2.threshold gave it
    endpoint,         \* extract_text_from_document: the key, what it did, its response
    running,          \* two concurrent calls: the one whose locals are in the variables
    parked,           \* two concurrent calls: the locals of the other one
    tesseract_cmd     \* pytesseract.pytesseract.tesseract_cmd

inVars == <<filename, file_bytes, openai_client>>

outVars == <<result, error>>

pdfVars == <<page_index, extracted_pages, page_results>>

docxVars == <<para_index, paragraphs>>

imgVars == <<vision_text, results, text1, text2>>

sweepVars == <<branch, psm_index, best_text, max_confidence>>

runVars == <<phase, first, env>>

ghostVars == <<vision_response, last_resort, result_confidences, mode_log>>

traceVars == <<profile_inputs>>

apiVars == <<endpoint>>

concVars == <<running, parked, tesseract_cmd>>

restVars == <<profile, image_size, array_size, binary, thresholded, apiVars, concVars>>

vars ==
    <<filename, file_bytes, openai_client, pc, result, error, calls, log,
      page_index, extracted_pages, page_results, para_index, paragraphs,
      vision_text, results, text1, text2, branch, psm_index, best_text,
      max_confidence, phase, first, env, vision_response, last_resort,
      result_confidences, mode_log, profile_inputs, profile, image_size,
      array_size, binary, thresholded, endpoint, running, parked, tesseract_cmd>>

Handlers == { "pdf", "docx", "image" }

\* A fraction num/den with den > 0: Python's float mean, kept exact.
Fraction(num, den) == [num |-> num, den |-> den]

Zero == Fraction(0, 1)

Greater(a, b) == a.num * b.den > b.num * a.den

Event(op, page) == [op |-> op, page |-> page]

ValueError == [type |-> "ValueError", message |-> UnsupportedMessage]

\* Any exception a collaborator raises (none of them is caught as ValueError
\* by this service).
Exception(op) == [type |-> "Exception", message |-> <<op>>]

NoError == [type |-> "none", message |-> <<>>]

\* No first call: the call is the only one.
NoFirst == [name |-> <<>>, bytes |-> JunkBytes, handler |-> "none", pc |-> "none", result |-> None]

\* No shared responses.
NoEnv ==
    [vision |-> [kind |-> "none", text |-> <<>>],
     standard |-> "none",
     psm6 |-> [kind |-> "none", text |-> <<>>]]

\* No size: no preprocessing runs on its own.
NoSize == [width |-> 0, height |-> 0]

\* No pixels counted.
NoPixels == [dark |-> 0, light |-> 0]

\* No preprocessing runs on its own.
NoPreprocessing ==
    /\ profile = "none"
    /\ image_size = NoSize
    /\ array_size = NoSize
    /\ binary = NoPixels
    /\ thresholded = NoPixels

\* No request: extract_text is called directly.
NoEndpoint ==
    [key |-> FALSE, constructed |-> 0, invoked |-> 0, status |-> 0,
     detail |-> <<>>, raw_text |-> None]

NoRequest == endpoint = NoEndpoint

\* pytesseract.pytesseract.tesseract_cmd as the import of the module sets it.
TesseractCmd == <<"C:\\Program Files\\Tesseract-OCR\\tesseract.exe">>

\* No other call.
NoCall == [pc |-> "none"]

\* One call on its own.
OneCall ==
    /\ running = 1
    /\ parked = NoCall
    /\ tesseract_cmd = TesseractCmd

\* No answer yet of the vision API, and none of image_to_string.
NoResponse == [kind |-> "none", text |-> <<>>]

\* The locals of a call before it runs.
FreshLocalsAt(label) ==
    /\ pc = label
    /\ result = None
    /\ error = NoError
    /\ calls = [h \in Handlers |-> 0]
    /\ log = <<>>
    /\ page_index = 0
    /\ extracted_pages = <<>>
    /\ page_results = <<>>
    /\ para_index = 0
    /\ paragraphs = <<>>
    /\ vision_text = None
    /\ results = <<>>
    /\ text1 = None
    /\ text2 = None
    /\ branch = 0
    /\ psm_index = 1
    /\ best_text = <<>>
    /\ max_confidence = Zero
    /\ vision_response = NoResponse
    /\ last_resort = NoResponse
    /\ result_confidences = <<>>
    /\ mode_log = <<>>
    /\ profile_inputs = <<>>

FreshLocals == FreshLocalsAt("start")

\* The locals of the next call before it runs.
FreshLocalsNext ==
    /\ pc' = "start"
    /\ result' = None
    /\ error' = NoError
    /\ calls' = [h \in Handlers |-> 0]
    /\ log' = <<>>
    /\ page_index' = 0
    /\ extracted_pages' = <<>>
    /\ page_results' = <<>>
    /\ para_index' = 0
    /\ paragraphs' = <<>>
    /\ vision_text' = None
    /\ results' = <<>>
    /\ text1' = None
    /\ text2' = None
    /\ branch' = 0
    /\ psm_index' = 1
    /\ best_text' = <<>>
    /\ max_confidence' = Zero
    /\ vision_response' = NoResponse
    /\ last_resort' = NoResponse
    /\ result_confidences' = <<>>
    /\ mode_log' = <<>>
    /\ profile_inputs' = <<>>

\* OCRService(openai_api_key) and one call extract_text(file_bytes, filename).
Init ==
    /\ filename \in FileNames
    /\ file_bytes \in FileContents
    /\ openai_client \in BOOLEAN
    /\ FreshLocals
    /\ NoPreprocessing
    /\ NoRequest
    /\ OneCall
    /\ phase = 0
    /\ first = NoFirst
    /\ env = NoEnv

\* ------------------------------------------------------------ extract_text

\* extract_text with ".jpeg" missing from the image suffixes.
SelectHandlerWithoutJpeg(bytes, name) ==
    LET lowered == Lower(name)
    IN  IF EndsWith(lowered, DotPdf) THEN "pdf"
        ELSE IF EndsWith(lowered, DotDocx) THEN "docx"
        ELSE IF EndsWith(lowered, DotPng) \/ EndsWith(lowered, DotJpg) THEN "image"
        ELSE "none"

\* extract_text looking at the bytes before the name.
SelectHandlerSniffing(bytes, name) ==
    LET lowered == Lower(name)
    IN  IF bytes.kind = "pdf" \/ EndsWith(lowered, DotPdf) THEN "pdf"
        ELSE IF bytes.kind = "docx" \/ EndsWith(lowered, DotDocx) THEN "docx"
        ELSE IF \/ EndsWith(lowered, DotPng)
                \/ EndsWith(lowered, DotJpg)
                \/ EndsWith(lowered, DotJpeg) THEN "image"
        ELSE "none"

\* The handler extract_text chooses for its two arguments, "none" when it
\* raises.  Only the lowercased name is read.
SelectHandler(bytes, name) ==
    LET lowered == Lower(name)
    IN  IF EndsWith(lowered, DotPdf) THEN "pdf"
        ELSE IF EndsWith(lowered, DotDocx) THEN "docx"
        ELSE IF \/ EndsWith(lowered, DotPng)
                \/ EndsWith(lowered, DotJpg)
                \/ EndsWith(lowered, DotJpeg) THEN "image"
        ELSE "none"

\* The first step of each handler.
Entry(handler) ==
    CASE handler = "pdf" -> "pdf_open"
      [] handler = "docx" -> "docx_open"
      [] handler = "image" -> "img_vision"

\* extract_text: the handler is called, or the ValueError is raised.
Dispatch ==
    /\ pc = "start"
    /\ LET handler == SelectHandler(file_bytes, filename)
       IN  IF handler = "none"
           THEN /\ pc' = "raised"
                /\ error' = ValueError
                /\ calls' = calls
           ELSE /\ pc' = Entry(handler)
                /\ error' = error
                /\ calls' = [calls EXCEPT ![handler] = @ + 1]
    /\ UNCHANGED <<inVars, result, log, pdfVars, docxVars, imgVars, sweepVars, runVars, ghostVars, traceVars, restVars>>

\* -------------------------------------------------------- _extract_from_docx

\* The append without its "if text".
AppendAlways(list, text) == Append(list, text)

\* paragraphs.append(text) under "if text".
AppendIfText(list, text) == IF text # <<>> THEN Append(list, text) ELSE list

\* Document(io.BytesIO(file_bytes)): raises on bytes that are no DOCX.
DocxOpen ==
    /\ pc = "docx_open"
    /\ log' = Append(log, Event("docx_open", 0))
    /\ IF file_bytes.kind = "docx"
       THEN /\ pc' = "docx_para"
            /\ paragraphs' = <<>>
            /\ para_index' = 0
            /\ error' = error
       ELSE /\ pc' = "raised"
            /\ error' = Exception("docx_open")
            /\ UNCHANGED docxVars
    /\ UNCHANGED <<inVars, result, calls, pdfVars, imgVars, sweepVars, runVars, ghostVars, traceVars, restVars>>

\* One turn of the loop over document.paragraphs.
DocxParagraph ==
    /\ pc = "docx_para"
    /\ para_index < Len(file_bytes.paras)
    /\ LET text == Strip(file_bytes.paras[para_index + 1])
       IN  paragraphs' = AppendIfText(paragraphs, text)
    /\ para_index' = para_index + 1
    /\ UNCHANGED <<inVars, pc, outVars, calls, log, pdfVars, imgVars, sweepVars, runVars, ghostVars, traceVars, restVars>>

\* return "\n".join(paragraphs)
DocxReturn ==
    /\ pc = "docx_para"
    /\ para_index = Len(file_bytes.paras)
    /\ result' = Join(paragraphs, <<NL>>)
    /\ pc' = "returned"
    /\ UNCHANGED <<inVars, error, calls, log, pdfVars, docxVars, imgVars, sweepVars, runVars, ghostVars, traceVars, restVars>>

\* ------------------------------------------------ _extract_with_openai_vision

\* The content of the response returned without ".strip()".
VisionClientUnstripped(client, response) ==
    IF ~client THEN None
    ELSE IF response.kind = "text" THEN response.text
    ELSE None

\* What the vision client returns for a response of the API: None without a
\* client, None when the call or the reading of the response raises, else
\* the content stripped.
VisionClient(client, response) ==
    IF ~client THEN None
    ELSE IF response.kind = "text" THEN Strip(response.text)
    ELSE None

\* --------------------------------------------------------- _extract_from_pdf

\* "if vision_text is not None" in place of "if vision_text".
PdfVisionAcceptsNotNone(text) == text # None

\* The threshold of _extract_from_image applied to the page as well.
PdfVisionAcceptsLong(text) == Truthy(text) /\ Len(Strip(text)) > Threshold

\* "if vision_text": the page takes the vision text.
PdfVisionAccepts(text) == Truthy(text)

\* pdf_document[max(page_index - 1, 0)] in place of pdf_document[page_index].
PreviousPageNumber == IF page_index > 0 THEN page_index ELSE 1

\* The page of the loop variable, counted from 1.
PageNumber == page_index + 1

\* A text layer counted as text only when it is longer than one character.
HasTextLayerLong(layer) == Len(Strip(layer)) > 1

\* "page_text = page.get_text().strip()" and "if page_text".
HasTextLayer(layer) == Strip(layer) # <<>>

\* fitz.open(stream=file_bytes, filetype="pdf"): raises on bytes that are no PDF.
PdfOpen ==
    /\ pc = "pdf_open"
    /\ log' = Append(log, Event("pdf_open", 0))
    /\ IF file_bytes.kind = "pdf"
       THEN /\ pc' = "pdf_page"
            /\ extracted_pages' = <<>>
            /\ page_index' = 0
            /\ error' = error
       ELSE /\ pc' = "raised"
            /\ error' = Exception("pdf_open")
            /\ UNCHANGED <<extracted_pages, page_index>>
    /\ UNCHANGED <<inVars, result, calls, page_results, docxVars, imgVars, sweepVars, runVars, ghostVars, traceVars, restVars>>

\* A page whose text layer holds text: the text is appended.
PdfDigitalPage ==
    /\ pc = "pdf_page"
    /\ page_index < Len(file_bytes.pages)
    /\ LET page_text == Strip(file_bytes.pages[PageNumber])
       IN  /\ HasTextLayer(file_bytes.pages[PageNumber])
           /\ extracted_pages' = Append(extracted_pages, page_text)
           /\ page_results' = Append(page_results, page_text)
    /\ page_index' = page_index + 1
    /\ UNCHANGED <<inVars, pc, outVars, calls, log, docxVars, imgVars, sweepVars, runVars, ghostVars, traceVars, restVars>>

\* A page without text: page.get_pixmap(dpi=300) and pixmap.tobytes().
PdfRasterize ==
    /\ pc = "pdf_page"
    /\ page_index < Len(file_bytes.pages)
    /\ ~HasTextLayer(file_bytes.pages[PageNumber])
    /\ log' = Append(log, Event("rasterize", PageNumber))
    /\ pc' = "pdf_vision"
    /\ UNCHANGED <<inVars, outVars, calls, pdfVars, docxVars, imgVars, sweepVars, runVars, ghostVars, traceVars, restVars>>

\* "if self.openai_client" is false: on to Tesseract.
PdfSkipVision ==
    /\ pc = "pdf_vision"
    /\ ~openai_client
    /\ pc' = "pdf_preprocess"
    /\ UNCHANGED <<inVars, outVars, calls, log, pdfVars, docxVars, imgVars, sweepVars, runVars, ghostVars, traceVars, restVars>>

\* The vision client asked again when it gave no text.
AfterVisionRejectedRetry == "pdf_vision"

\* "if vision_text" is false: on to the Tesseract fallback of the page.
AfterVisionRejected == "pdf_preprocess"

\* The vision client on the page image; its text, when there is any, is the
\* page's text.
PdfVision(response) ==
    /\ pc = "pdf_vision"
    /\ openai_client
    /\ log' = Append(log, Event("vision", PageNumber))
    /\ vision_response' = response
    /\ LET text == VisionClient(openai_client, response)
       IN  IF PdfVisionAccepts(text)
           THEN /\ extracted_pages' = Append(extracted_pages, text)
                /\ page_results' = Append(page_results, text)
                /\ page_index' = page_index + 1
                /\ pc' = "pdf_page"
           ELSE /\ pc' = AfterVisionRejected
                /\ UNCHANGED pdfVars
    /\ UNCHANGED <<inVars, outVars, calls, docxVars, imgVars, sweepVars, runVars, traceVars, restVars>>
    /\ UNCHANGED <<last_resort, result_confidences, mode_log>>

\* Image.open of the page image and _preprocess_image; an exception leaves
\* the call.
PdfPreprocess(outcome) ==
    /\ pc = "pdf_preprocess"
    /\ log' = log \o <<Event("image_open", PageNumber), Event("preprocess_standard", PageNumber)>>
    /\ IF outcome = "ok"
       THEN /\ pc' = "pdf_ocr"
            /\ error' = error
       ELSE /\ pc' = "raised"
            /\ error' = Exception("preprocess_standard")
    /\ UNCHANGED <<inVars, result, calls, pdfVars, docxVars, imgVars, sweepVars, runVars, ghostVars, traceVars, restVars>>

\* pytesseract.image_to_string with --psm 6; its stripped text is appended
\* when there is any; an exception leaves the call.
PdfRecognize(outcome) ==
    /\ pc = "pdf_ocr"
    /\ log' = Append(log, Event("ocr", PageNumber))
    /\ IF outcome.kind = "raise"
       THEN /\ pc' = "raised"
            /\ error' = Exception("ocr")
            /\ UNCHANGED <<pdfVars, vision_response>>
       ELSE /\ LET ocr_text == Strip(outcome.text)
               IN  /\ extracted_pages' = AppendIfText(extracted_pages, ocr_text)
                   /\ page_results' = Append(page_results, ocr_text)
            /\ page_index' = page_index + 1
            /\ pc' = "pdf_page"
            /\ error' = error
            /\ vision_response' = NoResponse
    /\ UNCHANGED <<inVars, result, calls, docxVars, imgVars, sweepVars, runVars, traceVars, restVars>>
    /\ UNCHANGED <<last_resort, result_confidences, mode_log>>

\* return "\n\n".join(extracted_pages)
PdfReturn ==
    /\ pc = "pdf_page"
    /\ page_index = Len(file_bytes.pages)
    /\ result' = Join(extracted_pages, <<NL, NL>>)
    /\ pc' = "returned"
    /\ UNCHANGED <<inVars, error, calls, log, pdfVars, docxVars, imgVars, sweepVars, runVars, ghostVars, traceVars, restVars>>

\* ---------------------------------------------------- _ocr_with_multiple_psm

PsmModes == <<3, 6, 11, 4>>

\* "conf != '-1'": only the string '-1' is dropped.
KeepConf(conf) == ~(conf.type = "str" /\ conf.v = -1)

\* [int(conf) for conf in data['conf'] if conf != '-1']
Confidences(column) ==
    LET kept == SelectSeq(column, KeepConf)
    IN  [i \in 1..Len(kept) |-> kept[i].v]

RECURSIVE Sum(_)
Sum(numbers) == IF numbers = <<>> THEN 0 ELSE Head(numbers) + Sum(Tail(numbers))

\* sum(confidences) / len(confidences) if confidences else 0
AvgConfidence(confidences) ==
    IF confidences = <<>> THEN Zero
    ELSE Fraction(Sum(confidences), Len(confidences))

\* The loop taken up again from the first mode after an exception.
AfterRaisedTurnRestart(index) == 1

\* "break" in place of "continue": the loop ends with the first exception.
AfterRaisedTurnBreak(index) == Len(PsmModes) + 1

\* "except Exception as error: continue": on to the next mode.
AfterRaisedTurn(index) == index + 1

\* One turn of the loop over psm_modes: image_to_string, image_to_data, and
\* the result is kept when its confidence is higher and its text not blank.
\* An exception of either call ends the turn only.
SweepTurn(string, data) ==
    /\ pc = "sweep"
    /\ psm_index <= Len(PsmModes)
    /\ log' = Append(log, Event("ocr", 0))
    /\ IF string.kind = "raise" \/ data.kind = "raise"
       THEN UNCHANGED <<best_text, max_confidence>>
       ELSE LET avg_confidence == AvgConfidence(Confidences(data.conf))
            IN  IF Greater(avg_confidence, max_confidence) /\ Strip(string.text) # <<>>
                THEN /\ max_confidence' = avg_confidence
                     /\ best_text' = string.text
                ELSE UNCHANGED <<best_text, max_confidence>>
    /\ psm_index' = IF string.kind = "raise" \/ data.kind = "raise"
                    THEN AfterRaisedTurn(psm_index)
                    ELSE psm_index + 1
    /\ UNCHANGED <<inVars, pc, outVars, calls, branch, pdfVars, docxVars, imgVars, runVars, traceVars, restVars>>
    /\ UNCHANGED <<vision_response, last_resort, result_confidences>>

\* A turn of the loop.
SweepMode(string, data) ==
    /\ SweepTurn(string, data)
    /\ UNCHANGED mode_log

\* A turn of the loop, written down: the answers it got and, when neither
\* call raised, its local avg_confidence.
TracedSweepMode(string, data) ==
    /\ SweepTurn(string, data)
    /\ mode_log' =
          Append(mode_log,
                 [string |-> string,
                  data |-> data,
                  avg_confidence |->
                      IF string.kind = "raise" \/ data.kind = "raise" THEN Zero
                      ELSE AvgConfidence(Confidences(data.conf))])

\* return best_text.strip(), and in _extract_from_image the text is appended
\* to results when it is not blank.
SweepReturn ==
    /\ pc = "sweep"
    /\ psm_index = Len(PsmModes) + 1
    /\ LET text == Strip(best_text)
       IN  /\ results' = IF Strip(text) # <<>> THEN Append(results, text) ELSE results
           /\ result_confidences' =
                  IF Strip(text) # <<>> THEN Append(result_confidences, max_confidence)
                  ELSE result_confidences
           /\ IF branch = 1
              THEN /\ text1' = text
                   /\ text2' = text2
                   /\ pc' = "img_handwritten"
              ELSE /\ text2' = text
                   /\ text1' = text1
                   /\ pc' = "img_select"
    /\ branch' = 0
    /\ psm_index' = 1
    /\ best_text' = <<>>
    /\ max_confidence' = Zero
    /\ UNCHANGED <<inVars, outVars, calls, log, vision_text, pdfVars, docxVars, runVars, traceVars, restVars>>
    /\ UNCHANGED <<vision_response, last_resort, mode_log>>

\* -------------------------------------------------------- _extract_from_image

\* The vision result returned whatever it is.
ShortCircuitsAlways(text) == TRUE

\* ">= 20" in place of "> 20".
ShortCircuitsAtLeast(text) == Truthy(text) /\ Len(Strip(text)) >= Threshold

\* "if vision_text and len(vision_text.strip()) > 20": the vision text is
\* returned at once.
ShortCircuits(text) == Truthy(text) /\ Len(Strip(text)) > Threshold

\* The vision text, when there is any, kept as the first candidate.
InitialResultsWithVision(text) == IF Truthy(text) THEN <<text>> ELSE <<>>

\* "results = []": the candidates before the two Tesseract attempts, whatever
\* the vision client gave.
InitialResults(text) == <<>>

\* The last of the longest: ">=" where max keeps the first.
RECURSIVE MaxByLenLastFrom(_, _)
MaxByLenLastFrom(best, rest) ==
    IF rest = <<>> THEN best
    ELSE MaxByLenLastFrom(IF Len(Head(rest)) >= Len(best) THEN Head(rest) ELSE best,
                          Tail(rest))

MaxByLenLast(list) == MaxByLenLastFrom(Head(list), Tail(list))

\* The candidates joined into one text in place of the choice of one.
MaxByLenJoined(list) == Join(list, <<NL>>)

\* max(results, key=len), results not empty: the first of the longest.
RECURSIVE MaxByLenFrom(_, _)
MaxByLenFrom(best, rest) ==
    IF rest = <<>> THEN best
    ELSE MaxByLenFrom(IF Len(Head(rest)) > Len(best) THEN Head(rest) ELSE best,
                      Tail(rest))

MaxByLen(list) == MaxByLenFrom(Head(list), Tail(list))

\* "if self.openai_client" is false: on to Tesseract.
ImgSkipVision ==
    /\ pc = "img_vision"
    /\ ~openai_client
    /\ pc' = "img_open"
    /\ UNCHANGED <<inVars, outVars, calls, log, pdfVars, docxVars, imgVars, sweepVars, runVars, ghostVars, traceVars, restVars>>

\* The vision client on the image; a result of more than 20 characters is
\* returned.
ImgVision(response) ==
    /\ pc = "img_vision"
    /\ openai_client
    /\ log' = Append(log, Event("vision", 0))
    /\ vision_response' = response
    /\ LET text == VisionClient(openai_client, response)
       IN  /\ vision_text' = text
           /\ IF ShortCircuits(text)
              THEN /\ result' = text
                   /\ pc' = "returned"
              ELSE /\ result' = result
                   /\ pc' = "img_open"
    /\ UNCHANGED <<inVars, error, calls, results, text1, text2, pdfVars, docxVars, sweepVars, runVars, traceVars, restVars>>
    /\ UNCHANGED <<last_resort, result_confidences, mode_log>>

\* Image.open(io.BytesIO(file_bytes)): raises on bytes that are no image.
ImgOpen ==
    /\ pc = "img_open"
    /\ log' = Append(log, Event("image_open", 0))
    /\ IF file_bytes.kind = "image"
       THEN /\ pc' = "img_standard"
            /\ results' = InitialResults(vision_text)
            /\ error' = error
       ELSE /\ pc' = "raised"
            /\ error' = Exception("image_open")
            /\ results' = results
    /\ UNCHANGED <<inVars, result, calls, vision_text, text1, text2, pdfVars, docxVars, sweepVars, runVars, ghostVars, traceVars, restVars>>

\* The sweep starts on a preprocessed image.
StartSweep(which) ==
    /\ branch' = which
    /\ psm_index' = 1
    /\ best_text' = <<>>
    /\ max_confidence' = Zero
    /\ pc' = "sweep"

\* An exception of Try 1 taken for the end of the attempts.
AfterStandardExceptionSelect == "img_select"

\* "except Exception as error: pass" of Try 1: on to Try 2.
AfterStandardException == "img_handwritten"

\* Try 1: _preprocess_image, then the sweep; an exception ends the try.
ImgPreprocessStandard(outcome) ==
    /\ pc = "img_standard"
    /\ log' = Append(log, Event("preprocess_standard", 0))
    /\ profile_inputs' = Append(profile_inputs, "image")
    /\ IF outcome = "ok"
       THEN StartSweep(1)
       ELSE /\ pc' = AfterStandardException
            /\ UNCHANGED sweepVars
    /\ UNCHANGED <<inVars, outVars, calls, pdfVars, docxVars, imgVars, runVars, ghostVars, restVars>>

\* Try 2 handed the image Try 1 made, when it made one.
HandwrittenInputChained == IF text1 # None THEN "processed_image" ELSE "image"

\* "self._preprocess_for_handwritten(image)": the image as it was opened.
HandwrittenInput == "image"

\* Try 2: _preprocess_for_handwritten, then the sweep; an exception ends the
\* try.
ImgPreprocessHandwritten(outcome) ==
    /\ pc = "img_handwritten"
    /\ log' = Append(log, Event("preprocess_handwritten", 0))
    /\ profile_inputs' = Append(profile_inputs, HandwrittenInput)
    /\ IF outcome = "ok"
       THEN StartSweep(2)
       ELSE /\ pc' = "img_select"
            /\ UNCHANGED sweepVars
    /\ UNCHANGED <<inVars, outVars, calls, pdfVars, docxVars, imgVars, runVars, ghostVars, restVars>>

\* "if len(results) > 1" in place of "if results".
HasSeveralCandidates(list) == Len(list) > 1

\* "if results": the list is not empty.
HasCandidate(list) == list # <<>>

\* "if results: return max(results, key=len)", else on to the last resort.
ImgSelect ==
    /\ pc = "img_select"
    /\ IF HasCandidate(results)
       THEN /\ result' = MaxByLen(results)
            /\ pc' = "returned"
       ELSE /\ result' = result
            /\ pc' = "img_last"
    /\ UNCHANGED <<inVars, error, calls, log, pdfVars, docxVars, imgVars, sweepVars, runVars, ghostVars, traceVars, restVars>>

\* The last resort in a try of its own that gives "" for an exception.
LastResortCaught(outcome) == [kind |-> "text", text |-> <<>>]

\* The last resort stands in no try: what image_to_string does is what the
\* call does.
LastResortUncaught(outcome) == outcome

\* The text of the last resort returned as it came.
LastResortTextRaw(text) == text

\* ".strip()" on the text of the last resort.
LastResortText(text) == Strip(text)

\* return pytesseract.image_to_string(image).strip(); an exception leaves the
\* call.
ImgLastResort(outcome) ==
    /\ pc = "img_last"
    /\ log' = Append(log, Event("ocr_original", 0))
    /\ last_resort' = outcome
    /\ IF LastResortUncaught(outcome).kind = "raise"
       THEN /\ pc' = "raised"
            /\ error' = Exception("ocr_original")
            /\ result' = result
       ELSE /\ pc' = "returned"
            /\ result' = LastResortText(LastResortUncaught(outcome).text)
            /\ error' = error
    /\ UNCHANGED <<inVars, calls, pdfVars, docxVars, imgVars, sweepVars, runVars, traceVars, restVars>>
    /\ UNCHANGED <<vision_response, result_confidences, mode_log>>

\* ------------------------------------------------------------ one call

Next ==
    \/ Dispatch
    \/ DocxOpen
    \/ DocxParagraph
    \/ DocxReturn
    \/ PdfOpen
    \/ PdfDigitalPage
    \/ PdfRasterize
    \/ PdfSkipVision
    \/ \E response \in VisionResponses : PdfVision(response)
    \/ \E outcome \in PreprocessOutcomes : PdfPreprocess(outcome)
    \/ \E outcome \in StringOutcomes : PdfRecognize(outcome)
    \/ PdfReturn
    \/ ImgSkipVision
    \/ \E response \in VisionResponses : ImgVision(response)
    \/ ImgOpen
    \/ \E outcome \in PreprocessOutcomes : ImgPreprocessStandard(outcome)
    \/ \E outcome \in PreprocessOutcomes : ImgPreprocessHandwritten(outcome)
    \/ \E string \in StringOutcomes, data \in DataOutcomes : SweepMode(string, data)
    \/ SweepReturn
    \/ ImgSelect
    \/ \E outcome \in StringOutcomes : ImgLastResort(outcome)

Spec == Init /\ [][Next]_vars

\* ------------------------------------------------- two calls, compared

\* The handler the call has invoked, "none" when it has invoked none.
InvokedHandler ==
    IF \E h \in Handlers : calls[h] > 0
    THEN CHOOSE h \in Handlers : calls[h] > 0
    ELSE "none"

\* One upload of each kind.
PairContents ==
    { PdfBytes(<< <<"p", NL>> >>), DocxBytes(<< <<"w">> >>), ImageBytes, JunkBytes }

\* What the call did is kept, and extract_text is called again with any
\* name and any bytes.
NextCall ==
    /\ phase = 1
    /\ env = NoEnv
    /\ pc # "start"
    /\ first' = [name |-> filename, bytes |-> file_bytes, handler |-> InvokedHandler,
                 pc |-> pc, result |-> result]
    /\ phase' = 2
    /\ filename' \in FileNames
    /\ file_bytes' \in PairContents
    /\ FreshLocalsNext
    /\ UNCHANGED <<openai_client, env, restVars>>

InitPair ==
    /\ filename \in FileNames
    /\ file_bytes \in PairContents
    /\ openai_client \in BOOLEAN
    /\ FreshLocals
    /\ NoPreprocessing
    /\ NoRequest
    /\ OneCall
    /\ phase = 1
    /\ first = NoFirst
    /\ env = NoEnv

\* Two calls of extract_text, each followed to the choice of its handler.
NextPair ==
    \/ Dispatch
    \/ NextCall

SpecPair == InitPair /\ [][NextPair]_vars

\* --------------------------- a scanned page, and the same image on its own

\* The responses the two runs share: the vision API's answer for the page
\* image, the outcome of _preprocess_image on it, and image_to_string's answer
\* for the preprocessed image with --psm 6.
SharedResponses ==
    [vision : VisionResponses, standard : PreprocessOutcomes, psm6 : StringOutcomes]

\* A PDF of one page that has no text.
ScannedPdfs == { PdfBytes(<<layer>>) : layer \in { l \in PageLayers : Strip(l) = <<>> } }

\* What the PDF call did is kept, and extract_text is called on the page
\* image as an image file.
ReplayPage ==
    /\ phase = 1
    /\ env # NoEnv
    /\ pc \in { "returned", "raised" }
    /\ first' = [name |-> filename, bytes |-> file_bytes, handler |-> InvokedHandler,
                 pc |-> pc, result |-> result]
    /\ phase' = 2
    /\ filename' = <<"i">> \o DotPng
    /\ file_bytes' = ImageBytes
    /\ FreshLocalsNext
    /\ UNCHANGED <<openai_client, env, restVars>>

\* A turn of the sweep; the standard image with --psm 6 gets the shared answer.
SameSweepMode ==
    \E string \in StringOutcomes, data \in DataOutcomes :
        /\ SweepMode(string, data)
        /\ (branch = 1 /\ PsmModes[psm_index] = 6) => string = env.psm6

InitSame ==
    /\ filename = <<"a">> \o DotPdf
    /\ file_bytes \in ScannedPdfs
    /\ openai_client \in BOOLEAN
    /\ FreshLocals
    /\ NoPreprocessing
    /\ NoRequest
    /\ OneCall
    /\ phase = 1
    /\ first = NoFirst
    /\ env \in SharedResponses

NextSame ==
    \/ Dispatch
    \/ PdfOpen
    \/ PdfRasterize
    \/ PdfSkipVision
    \/ PdfVision(env.vision)
    \/ PdfPreprocess(env.standard)
    \/ PdfRecognize(env.psm6)
    \/ PdfReturn
    \/ ReplayPage
    \/ ImgSkipVision
    \/ ImgVision(env.vision)
    \/ ImgOpen
    \/ ImgPreprocessStandard(env.standard)
    \/ \E outcome \in PreprocessOutcomes : ImgPreprocessHandwritten(outcome)
    \/ SameSweepMode
    \/ SweepReturn
    \/ ImgSelect
    \/ \E outcome \in StringOutcomes : ImgLastResort(outcome)

SpecSame == InitSame /\ [][NextSame]_vars

\* ------------------------------------- an image call, nothing to be read

\* The names extract_text hands to _extract_from_image.
ImageNames == { name \in FileNames : SelectHandler(ImageBytes, name) = "image" }

\* The vision API fails, or answers with no text or with whitespace.
EmptyVisionResponses ==
    { response \in VisionResponses : VisionClient(TRUE, response) \in { None, <<>> } }

\* image_to_string returns, with no text or with whitespace.
EmptyStringOutcomes ==
    { outcome \in StringOutcomes : outcome.kind = "text" /\ Strip(outcome.text) = <<>> }

\* image_to_data returns.
ReturnedDataOutcomes == { outcome \in DataOutcomes : outcome.kind = "data" }

\* extract_text on an image in which nobody finds text and nothing raises.
InitEmpty ==
    /\ filename \in ImageNames
    /\ file_bytes = ImageBytes
    /\ openai_client \in BOOLEAN
    /\ FreshLocals
    /\ NoPreprocessing
    /\ NoRequest
    /\ OneCall
    /\ phase = 0
    /\ first = NoFirst
    /\ env = NoEnv

NextEmpty ==
    \/ Dispatch
    \/ ImgSkipVision
    \/ \E response \in EmptyVisionResponses : ImgVision(response)
    \/ ImgOpen
    \/ ImgPreprocessStandard("ok")
    \/ ImgPreprocessHandwritten("ok")
    \/ \E string \in EmptyStringOutcomes, data \in ReturnedDataOutcomes : SweepMode(string, data)
    \/ SweepReturn
    \/ ImgSelect
    \/ \E outcome \in EmptyStringOutcomes : ImgLastResort(outcome)

SpecEmpty == InitEmpty /\ [][NextEmpty]_vars

\* ------------------------------------- an image call, Tesseract is down

\* image_to_string raises whenever it is called (the binary is missing).
DownStringOutcomes == { outcome \in StringOutcomes : outcome.kind = "raise" }

\* image_to_data is not reached when image_to_string raises before it.
DownDataOutcomes == { outcome \in DataOutcomes : outcome.kind = "raise" }

\* extract_text on an image while every call of Tesseract raises.
InitDown ==
    /\ filename \in ImageNames
    /\ file_bytes \in { ImageBytes, JunkBytes }
    /\ openai_client \in BOOLEAN
    /\ FreshLocals
    /\ NoPreprocessing
    /\ NoRequest
    /\ OneCall
    /\ phase = 0
    /\ first = NoFirst
    /\ env = NoEnv

NextDown ==
    \/ Dispatch
    \/ ImgSkipVision
    \/ \E response \in VisionResponses : ImgVision(response)
    \/ ImgOpen
    \/ \E outcome \in PreprocessOutcomes : ImgPreprocessStandard(outcome)
    \/ \E outcome \in PreprocessOutcomes : ImgPreprocessHandwritten(outcome)
    \/ \E string \in DownStringOutcomes, data \in DownDataOutcomes : SweepMode(string, data)
    \/ SweepReturn
    \/ ImgSelect
    \/ \E outcome \in DownStringOutcomes : ImgLastResort(outcome)

SpecDown == InitDown /\ [][NextDown]_vars

\* ------------------------------------------------- one sweep, written down

\* The answers of image_to_string in a traced sweep.
SweepStrings ==
    { outcome \in StringOutcomes :
        outcome.kind = "raise" \/ outcome.text \in { <<>>, <<"b", NL>>, <<SP, "c">> } }

\* The answers of image_to_data in a traced sweep: no token, the 'no data'
\* marker alone as an integer, a token of confidence 0, the marker as a
\* string and as an integer beside a word, and a word alone.
SweepData ==
    { outcome \in DataOutcomes :
        \/ outcome.kind = "raise"
        \/ outcome.conf \in { <<>>,
                              <<IntConf(-1)>>,
                              <<IntConf(0)>>,
                              <<StrConf(-1), IntConf(60)>>,
                              <<IntConf(-1), IntConf(90)>>,
                              <<IntConf(80)>> } }

\* extract_text on an image without a client, followed through the first
\* sweep.
InitSweep ==
    /\ filename = <<"i">> \o DotPng
    /\ file_bytes = ImageBytes
    /\ openai_client = FALSE
    /\ FreshLocals
    /\ NoPreprocessing
    /\ NoRequest
    /\ OneCall
    /\ phase = 0
    /\ first = NoFirst
    /\ env = NoEnv

\* image_to_data is not called in a turn whose image_to_string raised.
NextSweep ==
    \/ Dispatch
    \/ ImgSkipVision
    \/ ImgOpen
    \/ ImgPreprocessStandard("ok")
    \/ \E string \in SweepStrings, data \in SweepData :
          /\ string.kind = "raise" => data.kind = "raise"
          /\ branch = 1
          /\ TracedSweepMode(string, data)
    \/ SweepReturn

SpecSweep == InitSweep /\ [][NextSweep]_vars

\* ------------------------------------ an image call, followed to its end

\* extract_text on a file with the name of an image.
InitImage ==
    /\ filename \in ImageNames
    /\ file_bytes \in { ImageBytes, JunkBytes }
    /\ openai_client \in BOOLEAN
    /\ FreshLocals
    /\ NoPreprocessing
    /\ NoRequest
    /\ OneCall
    /\ phase = 0
    /\ first = NoFirst
    /\ env = NoEnv

NextImage ==
    \/ Dispatch
    \/ ImgSkipVision
    \/ \E response \in VisionResponses : ImgVision(response)
    \/ ImgOpen
    \/ \E outcome \in PreprocessOutcomes : ImgPreprocessStandard(outcome)
    \/ \E outcome \in PreprocessOutcomes : ImgPreprocessHandwritten(outcome)
    \/ \E string \in StringOutcomes, data \in DataOutcomes : SweepMode(string, data)
    \/ SweepReturn
    \/ ImgSelect
    \/ \E outcome \in StringOutcomes : ImgLastResort(outcome)

\* Every collaborator call returns or raises, and the interpreter goes on to
\* the next statement: a call that can take a step takes one.
SpecImage == InitImage /\ [][NextImage]_vars /\ WF_vars(NextImage)

\* ------------------------------------------------- the /ocr/extract endpoint

\* An upload of no bytes.
NoBytes == [kind |-> "empty", pages |-> <<>>, paras |-> <<>>]

\* detail="Document file is required"
FileRequired == <<"Document file is required">>

\* detail="Uploaded document is empty"
DocumentEmpty == <<"Uploaded document is empty">>

\* f"Failed to extract text from the document: {str(error)}"
FailedDetail(message) == <<"Failed to extract text from the document: ">> \o message

\* Every exception answered with the status of the ValueError.
StatusOfAnyError(exception) == 400

\* except ValueError: 400; except Exception: 500.
StatusOf(exception) == IF exception.type = "ValueError" THEN 400 ELSE 500

\* detail=str(error) for a ValueError, the prefixed message for the others.
DetailOf(exception) ==
    IF exception.type = "ValueError"
    THEN exception.message
    ELSE FailedDetail(exception.message)

\* What OCRService(openai_api_key=...) does: it returns the service or raises.
ConstructOutcomes == { "ok", "raise" }

\* raise HTTPException(status_code=..., detail=...)
Respond(status_code, detail) ==
    /\ endpoint' = [endpoint EXCEPT !.status = status_code, !.detail = detail]
    /\ pc' = "api_done"

\* if not file.filename: 400.
ApiFilename ==
    /\ pc = "api_start"
    /\ IF filename = <<>> \/ filename = None
       THEN Respond(400, FileRequired)
       ELSE /\ pc' = "api_read"
            /\ endpoint' = endpoint
    /\ UNCHANGED <<inVars, outVars, calls, log, pdfVars, docxVars, imgVars, sweepVars,
                   runVars, ghostVars, traceVars, profile, image_size, array_size,
                   binary, thresholded, concVars>>

\* file_bytes = await file.read(); if not file_bytes: 400.
ApiRead ==
    /\ pc = "api_read"
    /\ IF file_bytes = NoBytes
       THEN Respond(400, DocumentEmpty)
       ELSE /\ pc' = "api_construct"
            /\ endpoint' = endpoint
    /\ UNCHANGED <<inVars, outVars, calls, log, pdfVars, docxVars, imgVars, sweepVars,
                   runVars, ghostVars, traceVars, profile, image_size, array_size,
                   binary, thresholded, concVars>>

\* ocr_service = OCRService(openai_api_key=OPENAI_API_KEY): the service of
\* this request, with a client when there is a key; OpenAI(api_key=...) can
\* raise.
ApiConstruct(outcome) ==
    /\ pc = "api_construct"
    /\ outcome = "raise" => endpoint.key
    /\ IF outcome = "raise"
       THEN /\ pc' = "raised"
            /\ error' = Exception("openai")
            /\ UNCHANGED <<openai_client, endpoint>>
       ELSE /\ pc' = "api_call"
            /\ openai_client' = endpoint.key
            /\ endpoint' = [endpoint EXCEPT !.constructed = @ + 1]
            /\ error' = error
    /\ UNCHANGED <<filename, file_bytes, result, calls, log, pdfVars, docxVars, imgVars,
                   sweepVars, runVars, ghostVars, traceVars, profile, image_size,
                   array_size, binary, thresholded, concVars>>

\* raw_text = ocr_service.extract_text(file_bytes=..., filename=...): the call.
ApiCall ==
    /\ pc = "api_call"
    /\ pc' = "start"
    /\ endpoint' = [endpoint EXCEPT !.invoked = @ + 1]
    /\ UNCHANGED <<inVars, outVars, calls, log, pdfVars, docxVars, imgVars, sweepVars,
                   runVars, ghostVars, traceVars, profile, image_size, array_size,
                   binary, thresholded, concVars>>

\* return OCRResponse(raw_text=raw_text); a raw_text that is no string fails
\* the validation of the response model, and pydantic's ValidationError is a
\* ValueError.
ApiReturn ==
    /\ pc = "returned"
    /\ IF result = None
       THEN Respond(400, <<"validation">>)
       ELSE /\ endpoint' = [endpoint EXCEPT !.status = 200, !.raw_text = result]
            /\ pc' = "api_done"
    /\ UNCHANGED <<inVars, outVars, calls, log, pdfVars, docxVars, imgVars, sweepVars,
                   runVars, ghostVars, traceVars, profile, image_size, array_size,
                   binary, thresholded, concVars>>

\* except ValueError as error / except Exception as error
ApiExcept ==
    /\ pc = "raised"
    /\ Respond(StatusOf(error), DetailOf(error))
    /\ UNCHANGED <<inVars, outVars, calls, log, pdfVars, docxVars, imgVars, sweepVars,
                   runVars, ghostVars, traceVars, profile, image_size, array_size,
                   binary, thresholded, concVars>>

\* A request: the filename of the upload (none, or one of the names), its
\* bytes (none, or one of the contents), and whether OPENAI_API_KEY is set.
InitApi ==
    /\ filename \in FileNames \cup { <<>> }
    /\ file_bytes \in FileContents \cup { NoBytes }
    /\ openai_client = FALSE
    /\ FreshLocalsAt("api_start")
    /\ NoPreprocessing
    /\ endpoint \in { [NoEndpoint EXCEPT !.key = k] : k \in BOOLEAN }
    /\ OneCall
    /\ phase = 0
    /\ first = NoFirst
    /\ env = NoEnv

NextApi ==
    \/ ApiFilename
    \/ ApiRead
    \/ \E outcome \in ConstructOutcomes : ApiConstruct(outcome)
    \/ ApiCall
    \/ Next
    \/ ApiReturn
    \/ ApiExcept

SpecApi == InitApi /\ [][NextApi]_vars

\* ------------------------------------------------- two concurrent requests

\* What the collaborators answer to one call, whenever it asks: the vision
\* API, the two preprocessings, each turn of a sweep, the last resort.
CallResponses ==
    [vision : { [kind |-> "raise", text |-> <<>>],
                [kind |-> "text", text |-> <<"a">> \o [i \in 1..Threshold |-> "a"]] },
     standard : PreprocessOutcomes,
     handwritten : { "ok" },
     string : { [kind |-> "raise", text |-> <<>>], [kind |-> "text", text |-> <<"b", NL>>] },
     data : { [kind |-> "data", conf |-> <<IntConf(80)>>] },
     last : { [kind |-> "text", text |-> <<SP, "c">>] }]

\* The answers of a call that asks no collaborator.
NoResponses == CHOOSE r \in CallResponses : TRUE

\* The requests: an image with its answers, a Word document, a file of no
\* supported type.
ConcCalls ==
    { [name |-> <<"i">> \o DotPng, bytes |-> ImageBytes, env |-> r] : r \in CallResponses }
      \cup { [name |-> <<"n">> \o DotDocx, bytes |-> DocxBytes(ExampleParas), env |-> NoResponses],
              [name |-> <<"d", ".", "b", "m", "p">>, bytes |-> ImageBytes, env |-> NoResponses] }

\* The locals of the running call and its own service object: the arguments
\* and locals of extract_text and of the functions it calls, self.openai_client
\* of the OCRService the request built, and what the request did.
Locals ==
    [filename |-> filename,
     file_bytes |-> file_bytes,
     openai_client |-> openai_client,
     pc |-> pc,
     result |-> result,
     error |-> error,
     calls |-> calls,
     log |-> log,
     page_index |-> page_index,
     extracted_pages |-> extracted_pages,
     page_results |-> page_results,
     para_index |-> para_index,
     paragraphs |-> paragraphs,
     vision_text |-> vision_text,
     results |-> results,
     text1 |-> text1,
     text2 |-> text2,
     branch |-> branch,
     psm_index |-> psm_index,
     best_text |-> best_text,
     max_confidence |-> max_confidence,
     env |-> env,
     vision_response |-> vision_response,
     last_resort |-> last_resort,
     result_confidences |-> result_confidences,
     mode_log |-> mode_log,
     profile_inputs |-> profile_inputs,
     endpoint |-> endpoint]

\* The locals of a request before its try block.
FreshCall(call, key) ==
    [filename |-> call.name,
     file_bytes |-> call.bytes,
     openai_client |-> FALSE,
     pc |-> "api_construct",
     result |-> None,
     error |-> NoError,
     calls |-> [h \in Handlers |-> 0],
     log |-> <<>>,
     page_index |-> 0,
     extracted_pages |-> <<>>,
     page_results |-> <<>>,
     para_index |-> 0,
     paragraphs |-> <<>>,
     vision_text |-> None,
     results |-> <<>>,
     text1 |-> None,
     text2 |-> None,
     branch |-> 0,
     psm_index |-> 1,
     best_text |-> <<>>,
     max_confidence |-> Zero,
     env |-> call.env,
     vision_response |-> NoResponse,
     last_resort |-> NoResponse,
     result_confidences |-> <<>>,
     mode_log |-> <<>>,
     profile_inputs |-> <<>>,
     endpoint |-> [NoEndpoint EXCEPT !.key = key]]

Load(saved) ==
    /\ filename' = saved.filename
    /\ file_bytes' = saved.file_bytes
    /\ openai_client' = saved.openai_client
    /\ pc' = saved.pc
    /\ result' = saved.result
    /\ error' = saved.error
    /\ calls' = saved.calls
    /\ log' = saved.log
    /\ page_index' = saved.page_index
    /\ extracted_pages' = saved.extracted_pages
    /\ page_results' = saved.page_results
    /\ para_index' = saved.para_index
    /\ paragraphs' = saved.paragraphs
    /\ vision_text' = saved.vision_text
    /\ results' = saved.results
    /\ text1' = saved.text1
    /\ text2' = saved.text2
    /\ branch' = saved.branch
    /\ psm_index' = saved.psm_index
    /\ best_text' = saved.best_text
    /\ max_confidence' = saved.max_confidence
    /\ env' = saved.env
    /\ vision_response' = saved.vision_response
    /\ last_resort' = saved.last_resort
    /\ result_confidences' = saved.result_confidences
    /\ mode_log' = saved.mode_log
    /\ profile_inputs' = saved.profile_inputs
    /\ endpoint' = saved.endpoint

StartsAs(saved) ==
    /\ filename = saved.filename
    /\ file_bytes = saved.file_bytes
    /\ openai_client = saved.openai_client
    /\ pc = saved.pc
    /\ result = saved.result
    /\ error = saved.error
    /\ calls = saved.calls
    /\ log = saved.log
    /\ page_index = saved.page_index
    /\ extracted_pages = saved.extracted_pages
    /\ page_results = saved.page_results
    /\ para_index = saved.para_index
    /\ paragraphs = saved.paragraphs
    /\ vision_text = saved.vision_text
    /\ results = saved.results
    /\ text1 = saved.text1
    /\ text2 = saved.text2
    /\ branch = saved.branch
    /\ psm_index = saved.psm_index
    /\ best_text = saved.best_text
    /\ max_confidence = saved.max_confidence
    /\ env = saved.env
    /\ vision_response = saved.vision_response
    /\ last_resort = saved.last_resort
    /\ result_confidences = saved.result_confidences
    /\ mode_log = saved.mode_log
    /\ profile_inputs = saved.profile_inputs
    /\ endpoint = saved.endpoint

\* A call resumes with what it left, and with the results list the other
\* call was filling.
RestoredSharingResults(saved) == [saved EXCEPT !.results = results]

\* A call resumes with what it left: its locals and its service are its own.
Restored(saved) == saved

\* What a call came to.
Outcome(call) == [pc |-> call.pc, result |-> call.result, error |-> call.error]

CallOf(k) == IF running = k THEN Locals ELSE parked

\* A call that ran alone has ended: what it came to is kept, and the next
\* run starts, the second call alone after the first, then both together.
AloneDone ==
    /\ phase \in 1..2
    /\ pc \in { "returned", "raised" }
    /\ first' = Append(first, Outcome(Locals))
    /\ phase' = phase + 1
    /\ running' = 2
    /\ LET again ==
               FreshCall([name |-> filename, bytes |-> file_bytes, env |-> env], endpoint.key)
       IN  IF phase = 1
           THEN Load(parked) /\ parked' = again
           ELSE Load(again) /\ parked' = parked
    /\ UNCHANGED <<profile, image_size, array_size, binary, thresholded, tesseract_cmd>>

\* The two calls run together: phase is 3 plus the number of times the
\* other thread was scheduled so far, counted up to MaxSwitches.
Together == phase >= 3

\* The other thread is scheduled.
Switch ==
    /\ Together
    /\ parked.pc \notin { "returned", "raised" }
    /\ Load(Restored(parked))
    /\ parked' = Locals
    /\ running' = 3 - running
    /\ phase' = IF phase < 3 + MaxSwitches THEN phase + 1 ELSE phase
    /\ UNCHANGED <<first, profile, image_size, array_size, binary, thresholded,
                   tesseract_cmd>>

InitConc ==
    \E one \in ConcCalls, two \in ConcCalls, key \in BOOLEAN :
        /\ StartsAs(FreshCall(one, key))
        /\ parked = FreshCall(two, key)
        /\ running = 1
        /\ tesseract_cmd = TesseractCmd
        /\ NoPreprocessing
        /\ phase = 1
        /\ first = <<>>

NextConc ==
    \/ ApiConstruct("ok")
    \/ ApiCall
    \/ Dispatch
    \/ DocxOpen
    \/ DocxParagraph
    \/ DocxReturn
    \/ ImgSkipVision
    \/ ImgVision(env.vision)
    \/ ImgOpen
    \/ ImgPreprocessStandard(env.standard)
    \/ ImgPreprocessHandwritten(env.handwritten)
    \/ SweepMode(env.string, env.data)
    \/ SweepReturn
    \/ ImgSelect
    \/ ImgLastResort(env.last)
    \/ AloneDone
    \/ Switch

SpecConc == InitConc /\ [][NextConc]_vars

\* ------------------------------------------- a preprocessing on its own

Profiles == { "standard", "handwritten" }

\* width < 1000 in _preprocess_image, width < 1500 in
\* _preprocess_for_handwritten.
MinWidth(p) == IF p = "standard" THEN 1000 ELSE 1500

\* A resize whenever the width is not the minimum, wider images included.
NeedsResizeUnlessEqual(width, minimum) == width # minimum

\* if width < 1000: / if width < 1500:
NeedsResize(width, minimum) == width < minimum

\* new_height = int(height * scale) with scale = minimum / width, two float
\* operations: the product is the exact quotient when scale is a whole
\* number; when only the quotient is whole the product can fall just below
\* it (int(195 * (1000 / 3)) is 64999), and int() then gives one less;
\* otherwise the fraction is far from both neighbours and int() truncates it.
NewHeights(height, minimum, width) ==
    LET exact == (height * minimum) \div width
    IN  IF (height * minimum) % width = 0 /\ minimum % width # 0
        THEN { exact - 1, exact }
        ELSE { exact }

\* The pixels of a bi-level array of that many pixels, counted: all dark, all
\* light, half and half, and the two counts around a mean of 127.
Histograms(total) ==
    { [dark |-> total - light, light |-> light] :
        light \in { 0, (127 * total) \div 255, (127 * total) \div 255 + 1,
                    (total + 1) \div 2, total } }

\* np.mean of an array of 0 and 255, and its comparison with a whole number.
MeanBelow(pixels, level) ==
    255 * pixels.light < level * (pixels.dark + pixels.light)

\* The comparison turned round: the light arrays are the ones inverted.
MostlyLight(pixels) == ~MeanBelow(pixels, 128)

\* if np.mean(binary) < 127:
MostlyDark(pixels) == MeanBelow(pixels, 127)

\* cv2.bitwise_not of an array of 0 and 255.
BitwiseNot(pixels) == [dark |-> pixels.light, light |-> pixels.dark]

\* The images a preprocessing is given, by width and height: widths below, at
\* and above both minima.
ImageSizes ==
    { [width |-> 1, height |-> 1], [width |-> 3, height |-> 6],
      [width |-> 3, height |-> 2], [width |-> 7, height |-> 5],
      [width |-> 999, height |-> 500], [width |-> 1000, height |-> 500],
      [width |-> 1001, height |-> 2], [width |-> 1499, height |-> 700],
      [width |-> 1500, height |-> 700], [width |-> 1501, height |-> 3],
      [width |-> 3000, height |-> 2] }

\* img_array = np.array(image); height, width = img_array.shape[:2]
PreArray ==
    /\ pc = "start"
    /\ profile \in Profiles
    /\ array_size' = image_size
    /\ pc' = "pre_resize"
    /\ UNCHANGED <<inVars, outVars, calls, log, pdfVars, docxVars, imgVars, sweepVars,
                   runVars, ghostVars, traceVars, profile, image_size, binary, thresholded,
                   apiVars, concVars>>

\* The resize of a narrow array. The later steps of _preprocess_image (the
\* grayscale conversion, the rotation into a (w, h) canvas, CLAHE, the
\* filters, the threshold, the closing, the sharpening) keep the shape.
PreResize ==
    /\ pc = "pre_resize"
    /\ IF NeedsResize(array_size.width, MinWidth(profile))
       THEN \E new_height \in NewHeights(array_size.height, MinWidth(profile),
                                         array_size.width) :
                array_size' = [width |-> MinWidth(profile), height |-> new_height]
       ELSE array_size' = array_size
    /\ pc' = IF profile = "handwritten" THEN "pre_threshold" ELSE "pre_done"
    /\ UNCHANGED <<inVars, outVars, calls, log, pdfVars, docxVars, imgVars, sweepVars,
                   runVars, ghostVars, traceVars, profile, image_size, binary, thresholded,
                   apiVars, concVars>>

\* _, binary = cv2.threshold(denoised, 0, 255, THRESH_BINARY + THRESH_OTSU):
\* every pixel becomes 0 or 255.
PreThreshold(pixels) ==
    /\ pc = "pre_threshold"
    /\ pixels.dark + pixels.light = array_size.width * array_size.height
    /\ thresholded' = pixels
    /\ binary' = pixels
    /\ pc' = "pre_polarity"
    /\ UNCHANGED <<inVars, outVars, calls, log, pdfVars, docxVars, imgVars, sweepVars,
                   runVars, ghostVars, traceVars, profile, image_size, array_size,
                   apiVars, concVars>>

\* if np.mean(binary) < 127: binary = cv2.bitwise_not(binary)
PrePolarity ==
    /\ pc = "pre_polarity"
    /\ binary' = IF MostlyDark(binary) THEN BitwiseNot(binary) ELSE binary
    /\ pc' = "pre_done"
    /\ UNCHANGED <<inVars, outVars, calls, log, pdfVars, docxVars, imgVars, sweepVars,
                   runVars, ghostVars, traceVars, profile, image_size, array_size,
                   thresholded, apiVars, concVars>>

InitPreprocess ==
    /\ filename = <<"i">> \o DotPng
    /\ file_bytes = ImageBytes
    /\ openai_client = FALSE
    /\ FreshLocals
    /\ profile \in Profiles
    /\ image_size \in ImageSizes
    /\ array_size = NoSize
    /\ binary = NoPixels
    /\ thresholded = NoPixels
    /\ NoRequest
    /\ OneCall
    /\ phase = 0
    /\ first = NoFirst
    /\ env = NoEnv

NextPreprocess ==
    \/ PreArray
    \/ PreResize
    \/ \E pixels \in Histograms(array_size.width * array_size.height) : PreThreshold(pixels)
    \/ PrePolarity

SpecPreprocess == InitPreprocess /\ [][NextPreprocess]_vars

\* ------------------------------- an image call, both sweeps written down

\* What a turn of a traced call gets from image_to_string and image_to_data.
TraceTurns ==
    { [string |-> [kind |-> "raise", text |-> <<>>], data |-> [kind |-> "raise", conf |-> <<>>]],
      [string |-> [kind |-> "text", text |-> <<"b", NL>>],
       data |-> [kind |-> "data", conf |-> <<IntConf(80)>>]],
      [string |-> [kind |-> "text", text |-> <<SP, "c">>],
       data |-> [kind |-> "data", conf |-> <<StrConf(-1), IntConf(60)>>]],
      [string |-> [kind |-> "text", text |-> <<"b", "b", NL>>],
       data |-> [kind |-> "data", conf |-> <<IntConf(0)>>]] }

\* What the vision API answers in a traced call: a failure, a short text and
\* a long one.
TraceVisions ==
    { response \in VisionResponses :
        \/ response.kind = "raise"
        \/ response.kind = "text" /\ Len(response.text) \in { 6, Threshold + 1 } }

InitTrace ==
    /\ filename = <<"i">> \o DotPng
    /\ file_bytes = ImageBytes
    /\ openai_client \in BOOLEAN
    /\ FreshLocals
    /\ NoPreprocessing
    /\ NoRequest
    /\ OneCall
    /\ phase = 0
    /\ first = NoFirst
    /\ env = NoEnv

NextTrace ==
    \/ Dispatch
    \/ ImgSkipVision
    \/ \E response \in TraceVisions : ImgVision(response)
    \/ ImgOpen
    \/ \E outcome \in PreprocessOutcomes : ImgPreprocessStandard(outcome)
    \/ \E outcome \in PreprocessOutcomes : ImgPreprocessHandwritten(outcome)
    \/ \E turn \in TraceTurns : TracedSweepMode(turn.string, turn.data)
    \/ SweepReturn
    \/ ImgSelect
    \/ \E outcome \in StringOutcomes : ImgLastResort(outcome)

SpecTrace == InitTrace /\ [][NextTrace]_vars

\* ------------------------------------------------------------- properties

\* A text without its leading and trailing whitespace: what lies between
\* its first and its last character that is no whitespace.
Trimmed(s) ==
    LET solid == { i \in 1..Len(s) : s[i] \notin Whitespace }
    IN  IF solid = {} THEN <<>>
        ELSE SubSeq(s, CHOOSE i \in solid : \A j \in solid : i <= j,
                       CHOOSE i \in solid : \A j \in solid : j <= i)

NonEmptyText(t) == t # <<>>

\* The parts with sep between each two neighbours, built from the left.
RECURSIVE GlueOnto(_, _, _)
GlueOnto(done, parts, sep) ==
    IF parts = <<>> THEN done
    ELSE GlueOnto(done \o sep \o Head(parts), Tail(parts), sep)

Glue(parts, sep) == IF parts = <<>> THEN <<>> ELSE GlueOnto(Head(parts), Tail(parts), sep)

LogOps == { log[i].op : i \in DOMAIN log }

SupportedName ==
    \E suffix \in { DotPdf, DotDocx, DotPng, DotJpg, DotJpeg } :
        EndsWith(Lower(filename), suffix)

HandlerCalls == calls["pdf"] + calls["docx"] + calls["image"]

\* C1: a name whose lowercased form ends in .pdf, .docx, .png, .jpg or .jpeg
\* gets exactly one handler call, and that one once; any other name gets the
\* ValueError naming PDF, DOCX, PNG, JPG and JPEG, no handler call and no
\* collaborator call.
C1_OneHandlerOrUnsupported ==
    /\ pc = "start" => HandlerCalls = 0
    /\ pc # "start" =>
         IF SupportedName
         THEN /\ HandlerCalls = 1
              /\ error.type # "ValueError"
         ELSE /\ pc = "raised"
              /\ error.type = "ValueError"
              /\ \A word \in { "PDF", "DOCX", "PNG", "JPG", "JPEG" } :
                   \E i \in DOMAIN error.message : error.message[i] = word
              /\ HandlerCalls = 0
              /\ log = <<>>

C1_Witness ==
    /\ pc = "returned"
    /\ filename = <<"I", ".", "J", "P", "G">>
    /\ calls = [h \in Handlers |-> IF h = "image" THEN 1 ELSE 0]

\* C2: of two calls whose names are equal up to letter case the second
\* invokes the handler the first invoked, whatever the bytes of the two are;
\* and with the same bytes a .pdf name gets the PDF handler and a .docx name
\* the DOCX handler.
C2_SuffixAloneDecides ==
    (phase = 2 /\ pc # "start") =>
        /\ Lower(first.name) = Lower(filename) => InvokedHandler = first.handler
        /\ ( /\ first.bytes = file_bytes
             /\ EndsWith(Lower(first.name), DotPdf)
             /\ EndsWith(Lower(filename), DotDocx) )
             => (first.handler = "pdf" /\ InvokedHandler = "docx")

C2_Witness ==
    /\ phase = 2
    /\ pc # "start"
    /\ first.name # filename
    /\ Lower(first.name) = Lower(filename)
    /\ first.bytes.kind = "docx"
    /\ file_bytes.kind = "pdf"
    /\ first.handler = "pdf"
    /\ InvokedHandler = "pdf"

\* C3: a call that returns returns a text, possibly empty, never None.
C3_ReturnsText ==
    pc = "returned" =>
        /\ result # None
        /\ \A i \in DOMAIN result : result[i] # "None"

C3_Witness ==
    /\ pc = "returned"
    /\ InvokedHandler = "image"
    /\ openai_client
    /\ log # <<>>
    /\ log[1].op = "vision"
    /\ vision_text = None
    /\ result = <<>>

C4_Expected(paras) ==
    Glue(SelectSeq([i \in DOMAIN paras |-> Trimmed(paras[i])], NonEmptyText), <<NL>>)

\* C4: the DOCX reader returns the paragraphs, each trimmed, the empty ones
\* left out, in their order, with one newline between two; ["  Hello  ", "",
\* "World"] gives "Hello\nWorld", and only empty paragraphs give "".
C4_DocxParagraphs ==
    (pc = "returned" /\ InvokedHandler = "docx") =>
        /\ result = C4_Expected(file_bytes.paras)
        /\ file_bytes.paras = ExampleParas =>
             result = <<"H", "e", "l", "l", "o", NL, "W", "o", "r", "l", "d">>
        /\ (\A i \in DOMAIN file_bytes.paras : Trimmed(file_bytes.paras[i]) = <<>>) =>
             result = <<>>

C4_Witness ==
    /\ pc = "returned"
    /\ InvokedHandler = "docx"
    /\ file_bytes.paras = ExampleParas
    /\ Len(result) = 11

AllPagesHaveText ==
    \A k \in DOMAIN file_bytes.pages : Trimmed(file_bytes.pages[k]) # <<>>

\* C5: for a PDF whose pages all have text, the call rasterizes no page,
\* calls the vision client never and Tesseract never, with or without a
\* client.
C5_DigitalPdfStaysLocal ==
    (InvokedHandler = "pdf" /\ file_bytes.kind = "pdf" /\ AllPagesHaveText) =>
        LogOps \subseteq { "pdf_open" }

C5_Witness ==
    /\ pc = "returned"
    /\ InvokedHandler = "pdf"
    /\ openai_client
    /\ Len(file_bytes.pages) >= 2
    /\ AllPagesHaveText
    /\ Len(extracted_pages) = Len(file_bytes.pages)

Rasterizations(k) ==
    Cardinality({ i \in DOMAIN log : log[i].op = "rasterize" /\ log[i].page = k })

Touched(k) == \E i \in DOMAIN log : log[i].page = k

\* C6: the pages of a PDF are taken one at a time in rising order: the calls
\* made for a page all come before the calls for the next one, a page the
\* loop has not reached has no call, a page is rasterized at most once and
\* only when its trimmed text is empty, and a finished page was rasterized
\* exactly when its trimmed text is empty; a call that returns has finished
\* every page.
C6_PagesInOrder ==
    (InvokedHandler = "pdf" /\ file_bytes.kind = "pdf") =>
        /\ page_index \in 0..Len(file_bytes.pages)
        /\ Len(page_results) = page_index
        /\ \A i, j \in DOMAIN log : i < j => log[i].page <= log[j].page
        /\ \A k \in DOMAIN file_bytes.pages :
             /\ Rasterizations(k) <= 1
             /\ Touched(k) <=> Rasterizations(k) = 1
             /\ Rasterizations(k) = 1 => Trimmed(file_bytes.pages[k]) = <<>>
             /\ k <= page_index =>
                  (Rasterizations(k) = 1 <=> Trimmed(file_bytes.pages[k]) = <<>>)
             /\ k > page_index + 1 => ~Touched(k)
             /\ (k = page_index + 1 /\ pc = "pdf_page") => ~Touched(k)
        /\ pc = "returned" => page_index = Len(file_bytes.pages)

C6_Witness ==
    /\ pc = "returned"
    /\ InvokedHandler = "pdf"
    /\ file_bytes.pages = << <<"p", NL>>, <<>> >>
    /\ Rasterizations(1) = 0
    /\ Rasterizations(2) = 1
    /\ Len(extracted_pages) = 2

Separators(text) ==
    Cardinality({ i \in 1..(Len(text) - 1) : text[i] = NL /\ text[i + 1] = NL })

\* C7: the PDF reader returns the texts of the pages that yielded text, in
\* page order, with "\n\n" between two: a page without text adds nothing, so
\* the text neither starts nor ends with whitespace and holds one separator
\* less than there are pages with text.
C7_PdfJoin ==
    (pc = "returned" /\ InvokedHandler = "pdf") =>
        LET kept == SelectSeq(page_results, NonEmptyText)
        IN  /\ Len(page_results) = Len(file_bytes.pages)
            /\ result = Glue(kept, <<NL, NL>>)
            /\ result # <<>> =>
                 (result[1] \notin Whitespace /\ result[Len(result)] \notin Whitespace)
            /\ Separators(result) = IF kept = <<>> THEN 0 ELSE Len(kept) - 1

C7_Witness ==
    /\ pc = "returned"
    /\ InvokedHandler = "pdf"
    /\ Len(page_results) = 2
    /\ page_results[1] = <<>>
    /\ page_results[2] # <<>>
    /\ result = page_results[2]

\* The text the vision client gives for the shared response.
SharedVisionText == VisionClient(openai_client, env.vision)

\* C8 as the specification states it: the text a scanned page gets is the
\* text _extract_from_image returns for the page image under the same vision
\* and recognizer responses.
C8_PageEqualsImagePipeline ==
    (phase = 2 /\ pc = "returned" /\ first.pc = "returned") => result = first.result

\* C8: a scanned page gets the vision text when the client is set and that
\* text is not empty, whatever its length; else the trimmed text of one
\* Tesseract run with --psm 6 on the standard-preprocessed page; the PDF
\* reader runs no handwritten preprocessing, no sweep and no last resort, and
\* an exception of the preprocessing or of Tesseract ends the call.
C8_PdfPageOwnPath ==
    (phase = 1 /\ pc \in { "returned", "raised" }) =>
        /\ LogOps \cap { "preprocess_handwritten", "ocr_original" } = {}
        /\ Cardinality({ i \in DOMAIN log : log[i].op = "ocr" }) <= 1
        /\ IF SharedVisionText # None /\ SharedVisionText # <<>>
           THEN pc = "returned" /\ result = Trimmed(env.vision.text)
           ELSE IF env.standard = "raise" \/ env.psm6.kind = "raise"
           THEN pc = "raised"
           ELSE pc = "returned" /\ result = Trimmed(env.psm6.text)

C8_Witness ==
    /\ phase = 1
    /\ pc = "returned"
    /\ SharedVisionText # None
    /\ Len(SharedVisionText) = 5
    /\ result = SharedVisionText
    /\ env.psm6.kind = "text"
    /\ Trimmed(env.psm6.text) # <<>>

ExceedsTwenty(text) == text # None /\ Len(Trimmed(text)) > 20

\* C9: with a client the image pipeline calls the vision client before
\* anything else, and it returns the vision text at once, with no image
\* decoding, preprocessing or Tesseract call, exactly when the trimmed vision
\* text is longer than 20 characters.
C9_VisionFirstAndThreshold ==
    InvokedHandler = "image" =>
        /\ (openai_client /\ log # <<>>) => log[1] = Event("vision", 0)
        /\ ~openai_client => "vision" \notin LogOps
        /\ pc # "img_vision" =>
             ( ExceedsTwenty(vision_text)
                 <=> (pc = "returned" /\ result = vision_text /\ LogOps = { "vision" }) )

C9_Witness ==
    /\ pc = "returned"
    /\ InvokedHandler = "image"
    /\ vision_text = Rep("a", 20)
    /\ result # vision_text
    /\ "ocr" \in LogOps

\* The texts of the two sweeps that were assigned and are not empty.
LocalCandidates == SelectSeq(<<text1, text2>>, Truthy)

AllCandidates == SelectSeq(<<vision_text, text1, text2>>, Truthy)

\* C10 as the specification states it: a vision text that is not empty and
\* not over the threshold is a candidate beside the two sweep texts, and the
\* longest of the candidates is returned.
C10_VisionIsCandidate ==
    ( /\ pc = "returned"
      /\ InvokedHandler = "image"
      /\ ~ExceedsTwenty(vision_text)
      /\ AllCandidates # <<>> ) =>
        /\ \E i \in DOMAIN AllCandidates : result = AllCandidates[i]
        /\ \A i \in DOMAIN AllCandidates : Len(AllCandidates[i]) <= Len(result)

\* C10: the candidates are the non-empty texts of the two sweeps only; the
\* longest is returned, the standard one when both are as long; a vision text
\* not over the threshold is dropped, and when both sweeps give nothing the
\* text of the last resort is returned.
C10_LocalCandidatesOnly ==
    (pc = "returned" /\ InvokedHandler = "image" /\ ~ExceedsTwenty(vision_text)) =>
        /\ results = LocalCandidates
        /\ IF LocalCandidates # <<>>
           THEN /\ \E i \in DOMAIN LocalCandidates : result = LocalCandidates[i]
                /\ \A i \in DOMAIN LocalCandidates :
                     Len(LocalCandidates[i]) <= Len(result)
                /\ Len(LocalCandidates[1]) = Len(result) => result = LocalCandidates[1]
                /\ "ocr_original" \notin LogOps
           ELSE log[Len(log)].op = "ocr_original"

C10_Witness ==
    /\ pc = "returned"
    /\ InvokedHandler = "image"
    /\ Len(vision_text) = 5
    /\ text1 = <<>>
    /\ text2 = <<>>
    /\ result = <<"b">>

\* The image call went past the vision client without returning its text.
PastVision ==
    /\ InvokedHandler = "image"
    /\ pc \notin { "start", "img_vision" }
    /\ ~(pc = "returned" /\ LogOps = { "vision" })

\* The call returned at "return max(results, key=len)".
ReturnedSelection ==
    /\ PastVision
    /\ pc = "returned"
    /\ "ocr_original" \notin LogOps

\* The position of the longest text of a list, the first when several are
\* as long.
FirstLongest(list) ==
    CHOOSE i \in DOMAIN list :
        /\ \A j \in DOMAIN list : Len(list[j]) <= Len(list[i])
        /\ \A j \in 1..(i - 1) : Len(list[j]) < Len(list[i])

\* C11: the selection returns the longest of the non-empty candidates, the
\* standard (printed) one before the handwritten one when both are as long,
\* whatever the confidences behind them; with no non-empty candidate it
\* selects no text and the call goes on to the last resort.
C11_LongestCandidateWins ==
    /\ ReturnedSelection =>
          /\ results # <<>>
          /\ results = SelectSeq(<<text1, text2>>, Truthy)
          /\ Len(result_confidences) = Len(results)
          /\ result = results[FirstLongest(results)]
    /\ (PastVision /\ (pc = "img_last" \/ "ocr_original" \in LogOps)) =>
          /\ results = <<>>
          /\ \A t \in { text1, text2 } : ~Truthy(t)

\* The shorter candidate had the higher confidence, and the longer one is
\* returned.
C11_Witness ==
    /\ ReturnedSelection
    /\ Len(results) = 2
    /\ Len(results[1]) < Len(results[2])
    /\ Greater(result_confidences[1], result_confidences[2])
    /\ result = results[2]

\* How often the call made the collaborator call op for the page.
CountOps(op, page) == Cardinality({ i \in DOMAIN log : log[i] = Event(op, page) })

Ended == pc \in { "returned", "raised" }

\* Image.open of the uploaded bytes succeeded.
Decoded == "image_open" \in LogOps /\ error # Exception("image_open")

C13_AllEmptyReturnsEmpty ==
    /\ pc # "raised"
    /\ error = NoError
    /\ Ended =>
          /\ result = <<>>
          /\ CountOps("ocr", 0) = 2 * Len(PsmModes)
          /\ CountOps("ocr_original", 0) = 1

\* The call returned "" after the vision client, eight turns and the last
\* resort, whose text was whitespace.
C13_Witness ==
    /\ pc = "returned"
    /\ result = <<>>
    /\ vision_response = [kind |-> "text", text |-> <<SP>>]
    /\ CountOps("ocr", 0) = 2 * Len(PsmModes)
    /\ last_resort = [kind |-> "text", text |-> <<NL>>]

\* Both attempts of the image call are over.
PastAttempts ==
    /\ PastVision
    /\ Decoded
    /\ pc \in { "img_select", "img_last", "returned", "raised" }

\* C14: an exception of a preprocessing profile, or of Tesseract inside a
\* sweep, never ends the image call: both attempts are always made, the
\* attempt whose preprocessing raised leaves no candidate (its text stays
\* unassigned), and the text of the other attempt is still returned.
C14_BranchFailureIsLocal ==
    InvokedHandler = "image" =>
        /\ pc = "raised" => error \in { Exception("image_open"), Exception("ocr_original") }
        /\ PastAttempts =>
              /\ CountOps("preprocess_standard", 0) = 1
              /\ CountOps("preprocess_handwritten", 0) = 1
              /\ CountOps("ocr", 0) =
                    Len(PsmModes) * Cardinality({ t \in { 1, 2 } : <<text1, text2>>[t] # None })
              /\ Len(results) = Cardinality({ t \in { 1, 2 } : Truthy(<<text1, text2>>[t]) })
        /\ (PastAttempts /\ pc # "img_select" /\ text1 = None /\ Truthy(text2)) =>
              pc = "returned" /\ result = text2
        /\ (PastAttempts /\ pc # "img_select" /\ text2 = None /\ Truthy(text1)) =>
              pc = "returned" /\ result = text1

\* _preprocess_image raised, the handwritten attempt ran all its turns, and
\* its text is returned.
C14_Witness ==
    /\ InvokedHandler = "image"
    /\ pc = "returned"
    /\ text1 = None
    /\ CountOps("preprocess_standard", 0) = 1
    /\ CountOps("ocr", 0) = Len(PsmModes)
    /\ result = text2
    /\ result = <<"b", "b">>

\* C15: a call on an image, or on a PDF that opens, raises only out of the
\* last resort of the image call, after every attempt before it left nothing;
\* undecodable image bytes, and an exception of the preprocessing or of
\* Tesseract on a scanned PDF page, end in a returned text.
C15_OnlyTotalFailureRaises ==
    ( /\ pc = "raised"
      /\ \/ InvokedHandler = "image"
         \/ InvokedHandler = "pdf" /\ file_bytes.kind = "pdf" ) =>
        /\ error = Exception("ocr_original")
        /\ results = <<>>

\* C16: while every call of Tesseract raises, an image call whose vision
\* text does not exceed the threshold never returns: it ends by raising, and
\* when its bytes decode the exception is that of the last resort, reached
\* with no candidate.
C16_RecognizerDownRaises ==
    /\ pc = "returned" => (ExceedsTwenty(vision_text) /\ result = vision_text)
    /\ (Ended /\ ~ExceedsTwenty(vision_text)) =>
          /\ pc = "raised"
          /\ result = None
          /\ Decoded =>
                /\ error = Exception("ocr_original")
                /\ last_resort.kind = "raise"
                /\ results = <<>>

\* Eight turns and the last resort all raised, after a vision text of twenty
\* characters, and the call raised.
C16_Witness ==
    /\ pc = "raised"
    /\ error = Exception("ocr_original")
    /\ Len(vision_text) = Threshold
    /\ CountOps("ocr", 0) = 2 * Len(PsmModes)
    /\ CountOps("ocr_original", 0) = 1

\* What the claim has the vision client return for an answer of the API:
\* the text trimmed, and unavailable for a failure or a null body.
VisionResult(response) ==
    IF response.kind = "text" THEN Trimmed(response.text) ELSE None

LastOp == IF log = <<>> THEN "none" ELSE log[Len(log)].op

\* C17: the vision client never raises: a failing call and a null body give
\* None, a text is given trimmed, and without a client nothing is sent and
\* the result is None; the image call and the PDF call go on to Tesseract
\* alike for None and for an empty text.
C17_VisionNeverRaises ==
    /\ LastOp = "vision" => (pc # "raised" /\ error = NoError)
    /\ ~openai_client =>
          (vision_response = NoResponse /\ vision_text = None /\ "vision" \notin LogOps)
    /\ vision_response # NoResponse => (openai_client /\ "vision" \in LogOps)
    /\ (InvokedHandler = "image" /\ vision_response # NoResponse) =>
          /\ vision_text = VisionResult(vision_response)
          /\ (LastOp = "vision" /\ VisionResult(vision_response) \in { None, <<>> }) =>
                pc = "img_open"
    /\ (InvokedHandler = "pdf" /\ LastOp = "vision") =>
          IF VisionResult(vision_response) \in { None, <<>> }
          THEN pc = "pdf_preprocess" /\ Len(page_results) = page_index
          ELSE /\ pc \in { "pdf_page", "returned" }
               /\ page_results[log[Len(log)].page] = VisionResult(vision_response)

\* The API call of an image call raised, the client returned None, and the
\* call went on to open the image.
C17_Witness ==
    /\ InvokedHandler = "image"
    /\ vision_response.kind = "raise"
    /\ vision_text = None
    /\ pc = "img_standard"
    /\ error = NoError

\* C18: the vision client is called at most once for an image and at most
\* once for each scanned page of a PDF, whatever it returned, only for pages
\* that were rasterized, and never without a client.
C18_VisionCalledOnce ==
    /\ \A k \in 0..MaxPages :
          /\ CountOps("vision", k) <= 1
          /\ k > 0 => CountOps("vision", k) <= CountOps("rasterize", k)
    /\ \A i \in DOMAIN log :
          log[i].op = "vision" =>
              /\ openai_client
              /\ InvokedHandler = "image" => log[i].page = 0
              /\ log[i].page \in 0..MaxPages
    /\ (InvokedHandler = "image" /\ openai_client /\ pc # "img_vision") =>
          CountOps("vision", 0) = 1

\* Two scanned pages: the client gave nothing for the first, which went to
\* Tesseract, and was asked once more, for the second.
C18_Witness ==
    /\ InvokedHandler = "pdf"
    /\ pc = "returned"
    /\ CountOps("vision", 1) = 1
    /\ CountOps("ocr", 1) = 1
    /\ CountOps("vision", MaxPages) = 1

\* The first sweep has returned and its turns are written down.
SweepDone == pc = "img_handwritten" /\ Len(mode_log) = Len(PsmModes)

\* The turns in which neither call raised and the text is not blank.
Readable ==
    { i \in DOMAIN mode_log :
        /\ mode_log[i].string.kind = "text"
        /\ mode_log[i].data.kind = "data"
        /\ Trimmed(mode_log[i].string.text) # <<>> }

\* The readable turn of the highest avg_confidence, the earliest of them.
MostConfident ==
    CHOOSE i \in Readable :
        \A j \in Readable :
            /\ ~Greater(mode_log[j].avg_confidence, mode_log[i].avg_confidence)
            /\ j < i => Greater(mode_log[i].avg_confidence, mode_log[j].avg_confidence)

\* C19: the sweep returns the trimmed text of the turn with the highest mean
\* confidence among the turns that gave a non-blank text, the earliest turn
\* on a tie, whatever that confidence is (0 included), and "" when no turn
\* gave a non-blank text.
C19_SweepReturnsMostConfident ==
    SweepDone =>
        text1 = IF Readable = {} THEN <<>>
                ELSE Trimmed(mode_log[MostConfident].string.text)

\* A token that carries a confidence: its value is not the marker -1.
HasData(conf) == conf.v # -1

\* The mean of the confidences of the tokens that carry one, 0 without any.
MeanConfidence(column) ==
    LET kept == SelectSeq(column, HasData)
        values == [i \in 1..Len(kept) |-> kept[i].v]
    IN  IF kept = <<>> THEN Zero ELSE Fraction(Sum(values), Len(kept))

SameValue(a, b) == a.num * b.den = b.num * a.den

\* C20: in every turn in which both calls returned, the avg_confidence of
\* the turn is the mean of the confidences of its tokens other than the
\* 'no data' marker -1, and 0 when no such token is left.
C20_MeanWithoutNoData ==
    \A i \in DOMAIN mode_log :
        (mode_log[i].string.kind = "text" /\ mode_log[i].data.kind = "data") =>
            SameValue(mode_log[i].avg_confidence, MeanConfidence(mode_log[i].data.conf))

\* A confidence of the scale of Tesseract: between 0 and 100.
InRange(mean) == 0 <= mean.num /\ mean.num <= 100 * mean.den

\* Every token has the marker -1 or a confidence between 0 and 100.
TokensInRange(column) ==
    \A i \in DOMAIN column : column[i].v = -1 \/ column[i].v \in 0..100

\* C21: with tokens that have the 'no data' marker or a confidence between 0
\* and 100, the avg_confidence of every turn lies between 0 and 100, and so
\* does max_confidence after every turn.
C21_ConfidenceInRange ==
    /\ InRange(max_confidence)
    /\ \A i \in DOMAIN mode_log :
          TokensInRange(mode_log[i].data.conf) => InRange(mode_log[i].avg_confidence)

\* One of the two calls of the turn raised.
RaisedTurn(turn) == turn.string.kind = "raise" \/ turn.data.kind = "raise"

\* C22: a turn of the sweep in which image_to_string or image_to_data raises
\* leaves best_text and max_confidence as they were and gives no candidate;
\* the turns after it are still made, all four in all; the sweep never
\* raises, its text comes from a turn that did not raise, and it is "" when
\* every turn raised.
C22_RaisingModeSkipped ==
    /\ [](/\ pc # "raised"
          /\ error = NoError
          /\ pc = "sweep" => psm_index = Len(mode_log) + 1
          /\ pc = "img_handwritten" =>
                /\ Len(mode_log) = Len(PsmModes)
                /\ text1 # <<>> =>
                      \E i \in DOMAIN mode_log :
                          /\ ~RaisedTurn(mode_log[i])
                          /\ text1 = Trimmed(mode_log[i].string.text)
                /\ (\A i \in DOMAIN mode_log : RaisedTurn(mode_log[i])) =>
                      (text1 = <<>> /\ results = <<>>))
    /\ [][(Len(mode_log') = Len(mode_log) + 1 /\ RaisedTurn(mode_log'[Len(mode_log')])) =>
             /\ best_text' = best_text
             /\ max_confidence' = max_confidence
             /\ results' = results
             /\ pc' = "sweep"]_vars

\* The first turn read a text, the second and the third raised, one in each
\* of the two calls, the fourth found nothing, and the text of the first is
\* returned.
C22_Witness ==
    /\ SweepDone
    /\ ~RaisedTurn(mode_log[1])
    /\ mode_log[2].string.kind = "raise"
    /\ mode_log[3].string.kind = "text" /\ mode_log[3].data.kind = "raise"
    /\ text1 = <<"b">>
    /\ text1 = Trimmed(mode_log[1].string.text)

\* The preprocessings and the turns of the sweeps among the calls made.
IsAttemptEvent(event) ==
    event.op \in { "preprocess_standard", "preprocess_handwritten", "ocr" }

\* The calls of one attempt: the preprocessing and, when it returned, the
\* four turns of the sweep.
AttemptEvents(op, swept) ==
    <<Event(op, 0)>> \o (IF swept THEN [i \in DOMAIN PsmModes |-> Event("ocr", 0)] ELSE <<>>)

C27_ImageCallTerminates ==
    /\ <>Ended
    /\ [](/\ CountOps("vision", 0) <= 1
          /\ CountOps("preprocess_standard", 0) <= 1
          /\ CountOps("preprocess_handwritten", 0) <= 1
          /\ CountOps("ocr", 0) <= 2 * Len(PsmModes)
          /\ CountOps("ocr_original", 0) <= 1
          /\ Len(log) <= 5 + 2 * Len(PsmModes)
          /\ PsmModes = <<3, 6, 11, 4>>
          /\ psm_index \in 1..(Len(PsmModes) + 1))
    /\ [][psm_index' # psm_index =>
             \/ pc' = "sweep" /\ psm_index' = psm_index + 1
             \/ pc' # "sweep" /\ psm_index = Len(PsmModes) + 1 /\ psm_index' = 1]_vars

\* The longest call: the vision request, the opening of the image, both
\* preprocessings, eight turns and the last resort.
C27_Witness ==
    /\ Ended
    /\ Len(log) = 5 + 2 * Len(PsmModes)
    /\ CountOps("vision", 0) = 1
    /\ CountOps("ocr", 0) = 2 * Len(PsmModes)
    /\ CountOps("ocr_original", 0) = 1

\* The turns of the Printed sweep (k = 1) or of the Handwritten sweep (k = 2)
\* in the written-down turns of the call, when that sweep has returned.
SweepText(k) == IF k = 1 THEN text1 ELSE text2

SweepTurns(k) ==
    IF SweepText(k) = None \/ Len(mode_log) < Len(PsmModes)
    THEN <<>>
    ELSE IF k = 1
         THEN SubSeq(mode_log, 1, Len(PsmModes))
         ELSE SubSeq(mode_log, Len(mode_log) - Len(PsmModes) + 1, Len(mode_log))

\* C29: the text an image call returns is one whole candidate: the vision
\* text when it short-circuits, else the text of the Printed or of the
\* Handwritten sweep, else the trimmed text of the last resort; and the text
\* of a sweep that returned is empty or the trimmed text of one of its own
\* turns that did not raise.
C29_ReturnsOneWholeCandidate ==
    /\ pc = "returned" =>
          \/ /\ ExceedsTwenty(vision_text)
             /\ vision_text = VisionResult(vision_response)
             /\ result = vision_text
          \/ /\ ~ExceedsTwenty(vision_text)
             /\ "ocr_original" \notin LogOps
             /\ Truthy(result)
             /\ result \in { text1, text2 }
          \/ /\ ~ExceedsTwenty(vision_text)
             /\ "ocr_original" \in LogOps
             /\ last_resort.kind = "text"
             /\ result = Trimmed(last_resort.text)
    /\ \A k \in 1..2 :
          SweepText(k) # None =>
              /\ Len(SweepTurns(k)) = Len(PsmModes)
              /\ \/ SweepText(k) = <<>>
                 \/ \E i \in DOMAIN SweepTurns(k) :
                        /\ ~RaisedTurn(SweepTurns(k)[i])
                        /\ SweepText(k) = Trimmed(SweepTurns(k)[i].string.text)

\* The Printed sweep kept the text of a turn, the Handwritten sweep the
\* different text of another, both are candidates, and the call returns the
\* first of them alone.
C29_Witness ==
    /\ pc = "returned"
    /\ text1 = <<"b">>
    /\ text2 = <<"c">>
    /\ results = <<text1, text2>>
    /\ Len(mode_log) = 2 * Len(PsmModes)
    /\ result = text1

\* C30: whichever handler ran and whichever way it returned (the vision
\* short-circuit, the selected sweep text, the last resort, the joined pages
\* of a PDF, the joined paragraphs of a Word document), the returned text
\* equals its own trimmed form: it neither starts nor ends with whitespace.
C30_ResultIsTrimmed ==
    (pc = "returned" /\ InvokedHandler \in { "image", "pdf", "docx" }) =>
        /\ result = Trimmed(result)
        /\ result # <<>> =>
              (result[1] \notin Whitespace /\ result[Len(result)] \notin Whitespace)

\* The last resort read a text between whitespace, and the call returns it
\* without the whitespace.
C30_Witness ==
    /\ pc = "returned"
    /\ InvokedHandler = "image"
    /\ last_resort.kind = "text"
    /\ last_resort.text # Trimmed(last_resort.text)
    /\ result # <<>>
    /\ result = Trimmed(last_resort.text)

\* The preprocessing that runs on its own has returned.
PreDone == pc = "pre_done"

\* C23: when a preprocessing returns, the width of its output is the larger
\* of the input width and the minimum of its profile (1000 standard, 1500
\* handwritten); an input at least that wide keeps its width and its height,
\* a narrower one gets the minimum width and its height times minimum over
\* width, cut to a whole number of pixels (at most one pixel below the exact
\* product).
C23_WidthIsMaxOfInputAndMinimum ==
    PreDone =>
        LET minimum == MinWidth(profile)
        IN  /\ minimum = IF profile = "standard" THEN 1000 ELSE 1500
            /\ array_size.width >= minimum
            /\ array_size.width =
                   IF image_size.width >= minimum THEN image_size.width ELSE minimum
            /\ image_size.width >= minimum => array_size = image_size
            /\ image_size.width < minimum =>
                  /\ array_size.width = minimum
                  /\ array_size.height * image_size.width <= image_size.height * minimum
                  /\ image_size.height * minimum
                        <= (array_size.height + 1) * image_size.width

\* An image of 999 by 500 went through the standard preprocessing and came
\* out 1000 wide and 500 high.
C23_Witness ==
    /\ PreDone
    /\ profile = "standard"
    /\ image_size = [width |-> 999, height |-> 500]
    /\ array_size = [width |-> 1000, height |-> 500]

\* C28: the handwritten preprocessing returns the inverse of the thresholded
\* array exactly when the mean of the thresholded array is below 127, and
\* the thresholded array itself otherwise; the mean of what it returns is
\* never below 127.
C28_PolarityFlipsIffDark ==
    (PreDone /\ profile = "handwritten") =>
        /\ thresholded.dark + thresholded.light = array_size.width * array_size.height
        /\ binary = IF MeanBelow(thresholded, 127)
                    THEN [dark |-> thresholded.light, light |-> thresholded.dark]
                    ELSE thresholded
        /\ ~MeanBelow(binary, 127)

\* A thresholded array with a mean just below 127 came out inverted.
C28_Witness ==
    /\ PreDone
    /\ profile = "handwritten"
    /\ thresholded.light > 0
    /\ MeanBelow(thresholded, 127)
    /\ ~MeanBelow(thresholded, 126)
    /\ binary # thresholded
    /\ binary.light = thresholded.dark

\* The endpoint has answered.
Answered == pc = "api_done"

\* C25: a request without a filename or with an empty body is answered 400
\* and the service is neither constructed nor called; once extract_text was
\* called, a ValueError is answered 400 with the message of the service, any
\* other exception 500, and a returned string 200 with that string as
\* raw_text; 200 is answered in no other case, and an exception of the
\* constructor is answered 500.
C25_EndpointMapping ==
    /\ endpoint.status \in { 0, 200, 400, 500 }
    /\ endpoint.status # 0 <=> Answered
    /\ endpoint.constructed \in 0..1
    /\ endpoint.invoked \in 0..endpoint.constructed
    /\ (filename = <<>> \/ file_bytes = NoBytes) =>
          /\ endpoint.constructed = 0
          /\ endpoint.invoked = 0
          /\ calls = [h \in Handlers |-> 0]
          /\ log = <<>>
          /\ Answered =>
                /\ endpoint.status = 400
                /\ endpoint.detail = IF filename = <<>> THEN FileRequired ELSE DocumentEmpty
    /\ (Answered /\ filename # <<>> /\ file_bytes # NoBytes) =>
          /\ error.type = "ValueError" =>
                /\ endpoint.invoked = 1
                /\ endpoint.status = 400
                /\ endpoint.detail = error.message
                /\ error.message = UnsupportedMessage
          /\ error.type = "Exception" =>
                /\ endpoint.status = 500
                /\ endpoint.detail = FailedDetail(error.message)
          /\ error = NoError =>
                /\ endpoint.invoked = 1
                /\ result # None
                /\ endpoint.status = 200
                /\ endpoint.raw_text = result
    /\ endpoint.status = 200 =>
          /\ endpoint.invoked = 1
          /\ error = NoError
          /\ result # None
          /\ endpoint.raw_text = result
    /\ endpoint.status # 200 => endpoint.raw_text = None

\* A file of a type the service does not support was uploaded, the service
\* was built and called, and the answer is 400 with the service's message.
C25_Witness ==
    /\ Answered
    /\ endpoint.invoked = 1
    /\ error = ValueError
    /\ endpoint.status = 400
    /\ endpoint.detail = UnsupportedMessage

\* Both calls of the concurrent run have ended.
BothEnded ==
    /\ Together
    /\ \A k \in 1..2 : CallOf(k).pc \in { "returned", "raised" }

\* C24: the recognizer path is never written; the client field of a call's
\* service is written only by the constructor that the call's own request
\* runs, once, before extract_text; and in every interleaving of two calls
\* each call ends as it ended when it ran alone with the same answers of the
\* collaborators: the same return or exception and the same text.
C24_CallsShareNoState ==
    /\ [](/\ tesseract_cmd = TesseractCmd
          /\ \A k \in 1..2 :
                /\ CallOf(k).endpoint.constructed \in 0..1
                /\ CallOf(k).pc # "api_construct" =>
                      /\ CallOf(k).endpoint.constructed = 1
                      /\ CallOf(k).openai_client = CallOf(k).endpoint.key
                /\ (Together /\ CallOf(k).pc \in { "returned", "raised" }) =>
                      Outcome(CallOf(k)) = first[k])
    /\ [][/\ tesseract_cmd' = tesseract_cmd
          /\ (running' = running /\ phase' = phase /\ pc # "api_construct") =>
                /\ openai_client' = openai_client
                /\ parked' = parked
          /\ (running' # running /\ Together) =>
                /\ openai_client' = parked.openai_client
                /\ parked'.openai_client = openai_client]_vars

\* Two image calls ran interleaved, the threads switched at least twice:
\* the one whose turns raised returns the text of its last resort, the
\* other the text of its sweep, each as it did alone.
C24_Witness ==
    /\ BothEnded
    /\ phase >= 3 + 2
    /\ CallOf(1).result = <<"c">>
    /\ CallOf(2).result = <<"b">>
    /\ CallOf(1).log # <<>>
    /\ CallOf(2).log # <<>>
    /\ first = << Outcome(CallOf(1)), Outcome(CallOf(2)) >>

====
